---- MODULE Spec2Model ----
(***************************************************************************)
(* A model of the diff-to-summary pipeline of generate-pr-mcp.             *)
(*                                                                         *)
(* Strings are modelled by what the code reads of them: a document is the  *)
(* sequence of its sections (length and the priority headings it holds),   *)
(* a diff is the sequence of its lines.  Each function of the source is a  *)
(* group of variables and a specification of its own; the variables of    *)
(* the other groups stay at their idle values.                             *)
(***************************************************************************)
EXTENDS Integers, Sequences, FiniteSets, TLC

VARIABLES
    \* truncatePRContentForMCP (src/src/helpers/validation.ts)
    prContent,        \* the input document, as split by /(?=^## )/m
    result,           \* the output under construction, a sequence of pieces
    remainingLength,  \* the remaining budget
    priorityIdx,      \* position of the for-loop over sectionPriority
    truncPc,          \* "idle" | "entry" | "loop" | "notice" | "catch" | "done"
    \* processDiffForPreview (src/src/helpers/processDiffForPreview.ts)
    diff,             \* the input diff, a sequence of runs of lines
    lineNo,           \* position of the for-loop over lines
    modifiedFiles,    \* the Map path -> {added, removed, changes}, in insertion order
    currentFile,      \* the current-file cursor
    totalLinesAdded,
    totalLinesRemoved,
    functionsModified,
    classesModified,
    interfacesModified,
    preview,          \* the value processDiffForPreview returns
    logicSummary,     \* the value generateSimpleLogicSummary returns for the same diff
    parsePc,          \* "idle" | "entry" | "lines" | "compose" | "fallback" | "done"
    \* requestCursorAIAnalysis, parseAIAnalysisResponse (cursorAI.ts, aiAnalysis.ts)
    anCall,           \* the function that is called
    anVariant,        \* whose generateFallbackAnalysis: "aiAnalysis.ts" | "part_001"
    anDiff,           \* the diff to analyse
    sampling,         \* the sampling function: "undefined" | "resolves" | "rejects"
    response,         \* what the sampling function resolves to
    anResult,         \* the AIAnalysisResult under construction
    anIdx,            \* position of the loop over sections or pieces
    anPc,
    returned,         \* what each function of the analysis has returned, in order
    \* generatePRFromTemplate (src/unnamed/part_004)
    genInput,         \* the arguments: useAI, title, description, whether diff is a string
    genRaises,        \* the renderers that raise in this call
    genDoc,           \* the document the promise resolves to
    genPc,
    \* the generate_ai_pr request handler (src/src/index.ts)
    hArgs,            \* the request: tool name and arguments
    featureBranch,
    mainBranch,
    hDiff,            \* the diff read from git
    hAnalysis,        \* aiAnalysis
    prdContent,       \* the generated document
    hFile,            \* the content of the file written
    hResponse,        \* what the request ends with: a result or an McpError
    gitCommands,      \* the git commands run to find the base branch and the diff
    hPc,
    \* concurrent generate_ai_pr invocations in one server process
    cwd,              \* process.cwd(), the working directory of the process
    projectDirOf,     \* the project directory of each invocation
    invPc,            \* where each invocation is
    logLines,         \* the lines appended to mcp-debug.log: who, when, in which directory
    documents,        \* the PR files written: who, in which directory
    \* successive calls of processDiffForPreview in one process
    calls,            \* the calls that have returned: their diff and their result
    \* validatePRParams (src/src/helpers/validation.ts)
    params,           \* the argument
    thrown,           \* what the call has thrown, if anything
    validatePc        \* the check the call is at

truncVars == <<prContent, result, remainingLength, priorityIdx, truncPc>>

parseVars == <<diff, lineNo, modifiedFiles, currentFile, totalLinesAdded,
               totalLinesRemoved, functionsModified, classesModified,
               interfacesModified, preview, logicSummary, parsePc>>

analysisVars == <<anCall, anVariant, anDiff, sampling, response, anResult, anIdx,
                  anPc, returned>>

genVars == <<genInput, genRaises, genDoc, genPc>>

handlerVars == <<hArgs, featureBranch, mainBranch, hDiff, hAnalysis, prdContent,
                 hFile, hResponse, gitCommands, hPc>>

concVars == <<cwd, projectDirOf, invPc, logLines, documents>>

callsVars == <<calls>>

validateVars == <<params, thrown, validatePc>>

vars == <<truncVars, parseVars, analysisVars, genVars, handlerVars, concVars, callsVars,
          validateVars>>

\* what the actions of one group leave alone
notTruncVars == <<parseVars, analysisVars, genVars, handlerVars, concVars, callsVars,
    validateVars>>

notParseVars == <<truncVars, analysisVars, genVars, handlerVars, concVars, callsVars,
    validateVars>>

notAnalysisVars == <<truncVars, parseVars, genVars, handlerVars, concVars, callsVars,
    validateVars>>

notGenVars == <<truncVars, parseVars, analysisVars, handlerVars, concVars, callsVars,
    validateVars>>

notConcVars == <<truncVars, parseVars, analysisVars, genVars, handlerVars, callsVars,
    validateVars>>

notHandlerVars == <<truncVars, parseVars, analysisVars, genVars, concVars, callsVars,
    validateVars>>

----------------------------------------------------------------------------
(* Helpers on sequences.                                                   *)

Min(a, b) == IF a < b THEN a ELSE b

Max(a, b) == IF a > b THEN a ELSE b

RECURSIVE SumLen(_)
\* total length of a sequence of records with a len field
SumLen(s) == IF s = <<>> THEN 0 ELSE s[1].len + SumLen(Tail(s))

\* all sequences over S of length 1..n
SeqsUpTo(S, n) == UNION {[1..k -> S] : k \in 1..n}

----------------------------------------------------------------------------
(* truncatePRContentForMCP: the Output Size Governor.                      *)

MAX_LENGTH == 4800

\* "\n\n*[Content truncated for MCP compatibility]*".length
SectionMarkerLen == 45

\* "\n\n---\n*Note: Full PR document has been generated ...*".length
FinalNoticeLen == 126

\* the section is cut to remainingLength - TruncReserve characters
TruncReserve == 100

\* a section is cut only when more than this budget remains
MinRemaining == 200

\* sectionPriority: 1 Overview, 2 Type of Change, 3 Changes Description,
\* 4 Checklist, 5 Testing Done, 6 Additional Notes
sectionPriority == 1..6

\* bounds of the documents explored
MaxSections == 3

SectionLens == {5, 250, 2400, 4801}

HeadingSets == {{}, {1}, {2}}

\* A document after prContent.split(/(?=^## )/m): sections[1] is the text
\* before the first "## " line (or the first section itself when the
\* document starts with "## "); has = the priority headings s.includes() finds.
Documents ==
    SeqsUpTo([len : SectionLens, has : HeadingSets], MaxSections)

\* prContent.length
ContentLength(doc) == SumLen(doc)

\* ResultLength: result.length, the sum of the pieces appended so far
ResultLength(r) == SumLen(r)

\* sections.find((s) => s.includes(priority)): index of the first match, 0 if none
FindSection(doc, p) ==
    IF \E i \in 1..Len(doc) : p \in doc[i].has
    THEN CHOOSE i \in 1..Len(doc) :
            /\ p \in doc[i].has
            /\ \A j \in 1..(i - 1) : p \notin doc[j].has
    ELSE 0

Piece(k, s, n) == [kind |-> k, src |-> s, len |-> n]

\* line 54-56: an empty or short document is returned as it is
TruncateShort ==
    /\ truncPc = "entry"
    /\ ContentLength(prContent) <= MAX_LENGTH
    /\ result' = <<Piece("whole", 0, ContentLength(prContent))>>
    /\ truncPc' = "done"
    /\ UNCHANGED <<prContent, remainingLength, priorityIdx>>
    /\ UNCHANGED notTruncVars

\* lines 60-74: result = title + "\n"; remainingLength = MAX_LENGTH - result.length
TruncateStart ==
    /\ truncPc = "entry"
    /\ ContentLength(prContent) > MAX_LENGTH
    /\ result' = <<Piece("section", 1, prContent[1].len), Piece("nl", 0, 1)>>
    /\ remainingLength' = MAX_LENGTH - (prContent[1].len + 1)
    /\ priorityIdx' = 1
    /\ truncPc' = "loop"
    /\ UNCHANGED prContent
    /\ UNCHANGED notTruncVars

\* lines 79-81: the section fits and is appended whole
AppendSection ==
    /\ truncPc = "loop"
    /\ priorityIdx \in sectionPriority
    /\ LET s == FindSection(prContent, priorityIdx) IN
        /\ s # 0
        /\ prContent[s].len < remainingLength
        /\ result' = result \o
              <<Piece("section", s, prContent[s].len), Piece("nl", 0, 1)>>
        /\ remainingLength' = remainingLength - (prContent[s].len + 1)
    /\ priorityIdx' = priorityIdx + 1
    /\ UNCHANGED <<prContent, truncPc>>
    /\ UNCHANGED notTruncVars

\* section.substring(0, remainingLength - 100).length
CutLength(sectionLen, remaining) == Min(sectionLen, Max(remaining - TruncReserve, 0))

\* lines 82-88: the section does not fit, is cut, marked, and the loop breaks
CutSection ==
    /\ truncPc = "loop"
    /\ priorityIdx \in sectionPriority
    /\ LET s == FindSection(prContent, priorityIdx) IN
        /\ s # 0
        /\ ~(prContent[s].len < remainingLength)
        /\ remainingLength > MinRemaining
        /\ result' = result \o
              << Piece("cut", s, CutLength(prContent[s].len, remainingLength)),
                 Piece("marker", 0, SectionMarkerLen),
                 Piece("nl", 0, 1) >>
    /\ truncPc' = "notice"
    /\ UNCHANGED <<prContent, remainingLength, priorityIdx>>
    /\ UNCHANGED notTruncVars

\* lines 77-90: no section holds the heading, or nothing of it fits
SkipPriority ==
    /\ truncPc = "loop"
    /\ priorityIdx \in sectionPriority
    /\ LET s == FindSection(prContent, priorityIdx) IN
        \/ s = 0
        \/ /\ s # 0
           /\ ~(prContent[s].len < remainingLength)
           /\ ~(remainingLength > MinRemaining)
    /\ priorityIdx' = priorityIdx + 1
    /\ UNCHANGED <<prContent, result, remainingLength, truncPc>>
    /\ UNCHANGED notTruncVars

\* the for-loop ends after the last priority
LoopEnd ==
    /\ truncPc = "loop"
    /\ priorityIdx \notin sectionPriority
    /\ truncPc' = "notice"
    /\ UNCHANGED <<prContent, result, remainingLength, priorityIdx>>
    /\ UNCHANGED notTruncVars

ContentWasCutByANotice(r, doc) == ResultLength(r) + FinalNoticeLen < ContentLength(doc)

\* line 93: result.length < prContent.length
ContentWasCut(r, doc) == ResultLength(r) < ContentLength(doc)

\* lines 93-98: the final notice, when the result is shorter than the input
FinalNotice ==
    /\ truncPc = "notice"
    /\ result' = IF ContentWasCut(result, prContent)
                 THEN Append(result, Piece("notice", 0, FinalNoticeLen))
                 ELSE result
    /\ truncPc' = "done"
    /\ UNCHANGED <<prContent, remainingLength, priorityIdx>>
    /\ UNCHANGED notTruncVars

\* lines 58-99: a statement of the try block that raises hands control to
\* the catch clause
RaiseInTry ==
    /\ \/ truncPc \in {"loop", "notice"}
       \/ truncPc = "entry" /\ ContentLength(prContent) > MAX_LENGTH
    /\ truncPc' = "catch"
    /\ UNCHANGED <<prContent, result, remainingLength, priorityIdx>>
    /\ UNCHANGED notTruncVars

\* "\n\n*[Content truncated due to length constraints]*".length
FallbackMarkerLen == 49

\* line 103: prContent.substring(0, MAX_LENGTH - 100)
FallbackReserve == 100

SimpleTruncationWhole(doc) ==
    << Piece("prefix", 0, Min(ContentLength(doc), MAX_LENGTH)),
       Piece("fallback marker", 0, FallbackMarkerLen) >>

\* lines 102-105: the first MAX_LENGTH - 100 characters and the marker
SimpleTruncation(doc) ==
    << Piece("prefix", 0, Min(ContentLength(doc), MAX_LENGTH - FallbackReserve)),
       Piece("fallback marker", 0, FallbackMarkerLen) >>

\* lines 99-106: the catch clause returns the simple truncation
CatchFallback ==
    /\ truncPc = "catch"
    /\ result' = SimpleTruncation(prContent)
    /\ truncPc' = "done"
    /\ UNCHANGED <<prContent, remainingLength, priorityIdx>>
    /\ UNCHANGED notTruncVars

TruncIdle ==
    /\ prContent = <<>>
    /\ result = <<>>
    /\ remainingLength = 0
    /\ priorityIdx = 0
    /\ truncPc = "idle"

TruncInit ==
    /\ prContent \in Documents
    /\ result = <<>>
    /\ remainingLength = 0
    /\ priorityIdx = 0
    /\ truncPc = "entry"

TruncNext ==
    \/ TruncateShort
    \/ TruncateStart
    \/ AppendSection
    \/ CutSection
    \/ SkipPriority
    \/ LoopEnd
    \/ FinalNotice
    \/ RaiseInTry
    \/ CatchFallback

----------------------------------------------------------------------------
(* Texts and paths.  A string is its literal; what the code computes from  *)
(* it (trim, includes, startsWith, endsWith, the extension, the cleaned    *)
(* snippet) is tabulated per literal; =quoted stands for a match of the    *)
(* quoted-assignment pattern of processDiffForPreview.ts line 224.         *)

TextTable ==
  "" :> [trim |-> "", clean |-> "",
      has |-> {},
      lower |-> {},
      starts |-> {}] @@
  "  " :> [trim |-> "", clean |-> "",
      has |-> {},
      lower |-> {},
      starts |-> {}] @@
  "x = 1;" :> [trim |-> "x = 1;", clean |-> "x = 1",
      has |-> {"="},
      lower |-> {"="},
      starts |-> {}] @@
  "function run(a) {" :> [trim |-> "function run(a) {", clean |-> "function run(a) {",
      has |-> {"function ", "function", "(", "{"},
      lower |-> {"function ", "function", "(", "{"},
      starts |-> {}] @@
  "  const  total = calculate(items);" :> [trim |-> "const  total = calculate(items);", clean |-> "const total = calculate(items)",
      has |-> {"const ", "=", "(", "calculate"},
      lower |-> {"const ", "=", "(", "calculate"},
      starts |-> {}] @@
  "export const API_KEY = \"k\";" :> [trim |-> "export const API_KEY = \"k\";", clean |-> "export const API_KEY = \"k\"",
      has |-> {"const ", "=", "API_KEY", "export", "=quoted"},
      lower |-> {"const ", "=", "api", "export", "key"},
      starts |-> {}] @@
  "const password = readInput(\"pw\");" :> [trim |-> "const password = readInput(\"pw\");", clean |-> "const password = readInput(\"pw\")",
      has |-> {"const ", "=", "(", "password"},
      lower |-> {"const ", "=", "(", "password"},
      starts |-> {}] @@
  "import fs from \"fs\";" :> [trim |-> "import fs from \"fs\";", clean |-> "import fs from \"fs\"",
      has |-> {"import"},
      lower |-> {"import"},
      starts |-> {"import "}] @@
  "class Cart {" :> [trim |-> "class Cart {", clean |-> "class Cart {",
      has |-> {"class ", "class", "{"},
      lower |-> {"class ", "class", "{"},
      starts |-> {}] @@
  "interface Item {" :> [trim |-> "interface Item {", clean |-> "interface Item {",
      has |-> {"interface ", "{", "interface"},
      lower |-> {"interface ", "{", "interface"},
      starts |-> {}] @@
  "router.get(\"/api\", handler);" :> [trim |-> "router.get(\"/api\", handler);", clean |-> "router.get(\"/api\", handler)",
      has |-> {"(", "route", "router", "api"},
      lower |-> {"(", "route", "router", "api"},
      starts |-> {}] @@
  "color: red;" :> [trim |-> "color: red;", clean |-> "color: red",
      has |-> {},
      lower |-> {},
      starts |-> {}] @@
  "auth login password" :> [trim |-> "auth login password", clean |-> "auth login password",
      has |-> {"auth", "password", "login", "log"},
      lower |-> {"auth", "password", "login", "log"},
      starts |-> {}] @@
  "display: flex; /* css */" :> [trim |-> "display: flex; /* css */", clean |-> "display: flex; /* css */",
      has |-> {"flex", "css"},
      lower |-> {"flex", "css"},
      starts |-> {}] @@
  "// fix: handle error" :> [trim |-> "// fix: handle error", clean |-> "// fix: handle error",
      has |-> {"fix", "error"},
      lower |-> {"fix", "error"},
      starts |-> {}] @@
  "cache.set(k, v);" :> [trim |-> "cache.set(k, v);", clean |-> "cache.set(k, v)",
      has |-> {"(", "cache"},
      lower |-> {"(", "cache"},
      starts |-> {}] @@
  "\"react-router\": \"6.0.0\"," :> [trim |-> "\"react-router\": \"6.0.0\",", clean |-> "\"react-router\": \"6.0.0\",",
      has |-> {"route", "router"},
      lower |-> {"route", "router"},
      starts |-> {}] @@
  "x = 1" :> [trim |-> "x = 1", clean |-> "x = 1",
      has |-> {"="},
      lower |-> {"="},
      starts |-> {}] @@
  "const  total = calculate(items);" :> [trim |-> "const  total = calculate(items);", clean |-> "const total = calculate(items)",
      has |-> {"const ", "=", "(", "calculate"},
      lower |-> {"const ", "=", "(", "calculate"},
      starts |-> {}] @@
  "const total = calculate(items)" :> [trim |-> "const total = calculate(items)", clean |-> "const total = calculate(items)",
      has |-> {"const ", "=", "(", "calculate"},
      lower |-> {"const ", "=", "(", "calculate"},
      starts |-> {}] @@
  "export const API_KEY = \"k\"" :> [trim |-> "export const API_KEY = \"k\"", clean |-> "export const API_KEY = \"k\"",
      has |-> {"const ", "=", "API_KEY", "export", "=quoted"},
      lower |-> {"const ", "=", "api", "export", "key"},
      starts |-> {}] @@
  "const password = readInput(\"pw\")" :> [trim |-> "const password = readInput(\"pw\")", clean |-> "const password = readInput(\"pw\")",
      has |-> {"const ", "=", "(", "password"},
      lower |-> {"const ", "=", "(", "password"},
      starts |-> {}] @@
  "import fs from \"fs\"" :> [trim |-> "import fs from \"fs\"", clean |-> "import fs from \"fs\"",
      has |-> {"import"},
      lower |-> {"import"},
      starts |-> {"import "}] @@
  "router.get(\"/api\", handler)" :> [trim |-> "router.get(\"/api\", handler)", clean |-> "router.get(\"/api\", handler)",
      has |-> {"(", "route", "router", "api"},
      lower |-> {"(", "route", "router", "api"},
      starts |-> {}] @@
  "color: red" :> [trim |-> "color: red", clean |-> "color: red",
      has |-> {},
      lower |-> {},
      starts |-> {}] @@
  "cache.set(k, v)" :> [trim |-> "cache.set(k, v)", clean |-> "cache.set(k, v)",
      has |-> {"(", "cache"},
      lower |-> {"(", "cache"},
      starts |-> {}]

PathTable ==
  "src/f.ts" :> [ext |-> "ts", extLower |-> "ts",
      has |-> {},
      lower |-> {},
      ends |-> {},
      len |-> 8] @@
  "README.md" :> [ext |-> "md", extLower |-> "md",
      has |-> {"README", ".md"},
      lower |-> {".md", "readme"},
      ends |-> {},
      len |-> 9] @@
  "package-lock.json" :> [ext |-> "json", extLower |-> "json",
      has |-> {"package-lock.json", "lock"},
      lower |-> {"package-lock.json", "lock"},
      ends |-> {},
      len |-> 17] @@
  "package.json" :> [ext |-> "json", extLower |-> "json",
      has |-> {"package.json"},
      lower |-> {"package.json"},
      ends |-> {},
      len |-> 12] @@
  "yarn.lock" :> [ext |-> "lock", extLower |-> "lock",
      has |-> {"yarn.lock", "lock"},
      lower |-> {"yarn.lock", "lock"},
      ends |-> {".lock"},
      len |-> 9] @@
  "node_modules/m/i.js" :> [ext |-> "js", extLower |-> "js",
      has |-> {"node_modules"},
      lower |-> {"node_modules"},
      ends |-> {},
      len |-> 19] @@
  "app.env" :> [ext |-> "env", extLower |-> "env",
      has |-> {},
      lower |-> {},
      ends |-> {".env"},
      len |-> 7] @@
  "out.log" :> [ext |-> "log", extLower |-> "log",
      has |-> {"log", ".log"},
      lower |-> {"log", ".log"},
      ends |-> {".log"},
      len |-> 7] @@
  "ui/view.tsx" :> [ext |-> "tsx", extLower |-> "tsx",
      has |-> {},
      lower |-> {},
      ends |-> {},
      len |-> 11] @@
  "theme.css" :> [ext |-> "css", extLower |-> "css",
      has |-> {"css"},
      lower |-> {"css"},
      ends |-> {},
      len |-> 9] @@
  "ci.yml" :> [ext |-> "yml", extLower |-> "yml",
      has |-> {},
      lower |-> {},
      ends |-> {},
      len |-> 6] @@
  "img.png" :> [ext |-> "png", extLower |-> "png",
      has |-> {},
      lower |-> {},
      ends |-> {},
      len |-> 7] @@
  "Makefile" :> [ext |-> "Makefile", extLower |-> "makefile",
      has |-> {},
      lower |-> {},
      ends |-> {},
      len |-> 8] @@
  "src/auth.ts" :> [ext |-> "ts", extLower |-> "ts",
      has |-> {"auth"},
      lower |-> {"auth"},
      ends |-> {},
      len |-> 11] @@
  "src/f.test.ts" :> [ext |-> "ts", extLower |-> "ts",
      has |-> {"test", ".test."},
      lower |-> {"test", ".test."},
      ends |-> {},
      len |-> 13] @@
  "dist/app.min.js" :> [ext |-> "js", extLower |-> "js",
      has |-> {"dist/"},
      lower |-> {"dist/"},
      ends |-> {".min.js"},
      len |-> 15]

\* line.substring(1).trim()
Trim(t) == TextTable[t].trim

\* change.trim().replace(/\s+/g, " ").replace(/;$/, "")
CleanChange(t) == TextTable[t].clean

\* t.includes(p)
Includes(t, p) == p \in TextTable[t].has

\* t.trim().startsWith(p)
StartsWith(t, p) == p \in TextTable[t].starts

\* A file path: the literal stem and a number that tells apart the files of
\* one shape (src/f.ts, src/f2.ts, ...); no pattern of the code reads the number.
File(stem, n) == [stem |-> stem, n |-> n]

\* currentFile = ""
NoFile == File("", 0)

\* file.includes(p), file.endsWith(p), file.split(".").pop()
PathIncludes(f, p) == p \in PathTable[f.stem].has

PathEndsWith(f, p) == p \in PathTable[f.stem].ends

PathExt(f) == PathTable[f.stem].ext

\* file.length; the files of one shape have names of one length
PathLength(f) == PathTable[f.stem].len

----------------------------------------------------------------------------
(* Diff lines.  k is what the line starts with:                            *)
(*   "hdr"    diff --git a/<file> b/<file>                                 *)
(*   "badhdr" diff --git ... that the header pattern does not match        *)
(*   "hunk"   @@ -a,b +c,d @@ <text>                                       *)
(*   "add"    +<text>          "del"   -<text>                             *)
(*   "+++"    +++ b/<file>     "---"   --- a/<file>                        *)
(*   "bin"    Binary files a/<file> and b/<file> differ                    *)
(*   "ctx"    any other line:  <text>                                      *)

Line(k, f, t) == [k |-> k, file |-> f, text |-> t]

Hdr(f) == Line("hdr", f, "")

Add(t) == Line("add", NoFile, t)

Del(t) == Line("del", NoFile, t)

\* A diff is a sequence of runs: n copies of a line, or (vary) n file
\* headers of the files stem#1 .. stem#n.
Run(l, n) == [line |-> l, n |-> n, vary |-> FALSE]

HeaderRun(stem, n) == [line |-> Hdr(File(stem, 1)), n |-> n, vary |-> TRUE]

RECURSIVE DiffLen(_)
\* diff.split("\n").length
DiffLen(d) == IF d = <<>> THEN 0 ELSE d[1].n + DiffLen(Tail(d))

RECURSIVE LineAt(_, _)
\* lines[i]
LineAt(d, i) ==
    IF i <= d[1].n
    THEN IF d[1].vary THEN [d[1].line EXCEPT !.file = File(@.stem, i)] ELSE d[1].line
    ELSE LineAt(Tail(d), i - d[1].n)

\* !diff.trim(): every line is blank
IsBlankDiff(d) ==
    \A i \in 1..DiffLen(d) : LineAt(d, i).k = "ctx" /\ Trim(LineAt(d, i).text) = ""

\* an argument that is not a string: it has no lines
NotAString == << Run(Line("not a string", NoFile, ""), 0) >>

\* lines 26-31: if (typeof diff !== "string") diff = ""
AsString(d) == IF d = NotAString THEN <<>> ELSE d

----------------------------------------------------------------------------
(* processDiffForPreview: the line loop.                                   *)

\* fileData.added.length < 1000, fileData.removed.length < 1000
MaxLinesPerFile == 1000

\* modifiedFiles.has(f), modifiedFiles.get(f): the Map as a sequence of
\* entries in insertion order
FileIndex(m, f) ==
    IF \E i \in 1..Len(m) : m[i].file = f
    THEN CHOOSE i \in 1..Len(m) : m[i].file = f
    ELSE 0

\* modifiedFiles.set(currentFile, {added: [], removed: [], changes: []})
NewEntry(f) == [file |-> f, added |-> <<>>, removed |-> <<>>, changes |-> <<>>]

\* a repeated header moves the file's entry to the end of the Map
SetFileMovesToEnd(m, f) ==
    IF FileIndex(m, f) = 0 THEN Append(m, NewEntry(f))
    ELSE Append(SelectSeq(m, LAMBDA e : e.file # f), m[FileIndex(m, f)])

\* lines 94-100: if (!modifiedFiles.has(currentFile)) modifiedFiles.set(...)
SetFile(m, f) ==
    IF FileIndex(m, f) = 0 THEN Append(m, NewEntry(f)) ELSE m

\* content.includes("function ") || (content.includes("const ") && content.includes("="))
IsFunctionLine(c) ==
    Includes(c, "function ") \/ (Includes(c, "const ") /\ Includes(c, "="))

Bump(cond) == IF cond THEN 1 ELSE 0

\* a result that reports a parse without files
EmptyPreviewAsParsed ==
    [ changesSummary |-> "stats",
      files |-> <<>>,
      mainLogicChanges |-> <<>>,
      technicalMetrics |-> [totalFiles |-> 0, linesAdded |-> 0, linesRemoved |-> 0,
                            functionsModified |-> 0, classesModified |-> 0,
                            interfacesModified |-> 0,
                            complexityScore |-> "Low"],
      fileAnalysis |-> <<>> ]

\* lines 25-49: a blank diff returns the empty result at once
EmptyPreview ==
    [ changesSummary |-> "No changes detected",
      files |-> <<>>,
      mainLogicChanges |-> <<>>,
      technicalMetrics |-> [totalFiles |-> 0, linesAdded |-> 0, linesRemoved |-> 0,
                            functionsModified |-> 0, classesModified |-> 0,
                            interfacesModified |-> 0,
                            complexityScore |-> "None"],
      fileAnalysis |-> <<>> ]

ParseBlank ==
    /\ parsePc = "entry"
    /\ IsBlankDiff(AsString(diff))
    /\ preview' = EmptyPreview
    /\ parsePc' = "fallback"
    /\ UNCHANGED <<diff, lineNo, modifiedFiles, currentFile, totalLinesAdded,
                   totalLinesRemoved, functionsModified, classesModified,
                   interfacesModified, logicSummary>>
    /\ UNCHANGED notParseVars

\* lines 60-83: split into lines, fresh Map and counters
ParseStart ==
    /\ parsePc = "entry"
    /\ ~IsBlankDiff(AsString(diff))
    /\ lineNo' = 1
    /\ parsePc' = "lines"
    /\ UNCHANGED <<diff, modifiedFiles, currentFile, totalLinesAdded,
                   totalLinesRemoved, functionsModified, classesModified,
                   interfacesModified, preview, logicSummary>>
    /\ UNCHANGED notParseVars

\* lines 89-102: a line that starts with "diff --git"
ReadFileHeader ==
    /\ parsePc = "lines" /\ lineNo <= DiffLen(diff)
    /\ LET l == LineAt(diff, lineNo) IN
        /\ l.k \in {"hdr", "badhdr"}
        /\ IF l.k = "hdr"
           THEN /\ currentFile' = l.file
                /\ modifiedFiles' = SetFile(modifiedFiles, l.file)
           ELSE UNCHANGED <<currentFile, modifiedFiles>>
    /\ lineNo' = lineNo + 1
    /\ UNCHANGED <<diff, totalLinesAdded, totalLinesRemoved, functionsModified,
                   classesModified, interfacesModified, preview, logicSummary, parsePc>>
    /\ UNCHANGED notParseVars

\* lines 104-115: a hunk header adds its label to the current file's changes
ReadHunkHeader ==
    /\ parsePc = "lines" /\ lineNo <= DiffLen(diff)
    /\ LET l == LineAt(diff, lineNo)
           i == FileIndex(modifiedFiles, currentFile) IN
        /\ l.k = "hunk"
        /\ modifiedFiles' = IF i # 0
                            THEN [modifiedFiles EXCEPT ![i].changes = Append(@, Trim(l.text))]
                            ELSE modifiedFiles
    /\ lineNo' = lineNo + 1
    /\ UNCHANGED <<diff, currentFile, totalLinesAdded, totalLinesRemoved,
                   functionsModified, classesModified, interfacesModified,
                   preview, logicSummary, parsePc>>
    /\ UNCHANGED notParseVars

\* the cap compared with <= : one line too many is kept
AcceptsAddedOffByOne(m, cur, content) ==
    /\ content # ""
    /\ cur # NoFile
    /\ FileIndex(m, cur) # 0
    /\ Len(m[FileIndex(m, cur)].added) <= MaxLinesPerFile

\* line 119-121: content && currentFile && fileData && fileData.added.length < 1000
AcceptsAdded(m, cur, content) ==
    /\ content # ""
    /\ cur # NoFile
    /\ FileIndex(m, cur) # 0
    /\ Len(m[FileIndex(m, cur)].added) < MaxLinesPerFile

\* line 145-147: the same for removed lines
AcceptsRemoved(m, cur, content) ==
    /\ content # ""
    /\ cur # NoFile
    /\ FileIndex(m, cur) # 0
    /\ Len(m[FileIndex(m, cur)].removed) < MaxLinesPerFile

\* lines 117-141: a line that starts with "+" and not with "+++"
ReadAddedLine ==
    /\ parsePc = "lines" /\ lineNo <= DiffLen(diff)
    /\ LET l == LineAt(diff, lineNo)
           content == Trim(l.text)
           i == FileIndex(modifiedFiles, currentFile) IN
        /\ l.k = "add"
        /\ IF AcceptsAdded(modifiedFiles, currentFile, content)
           THEN /\ modifiedFiles' = [modifiedFiles EXCEPT ![i].added = Append(@, content)]
                /\ totalLinesAdded' = totalLinesAdded + 1
                /\ functionsModified' = functionsModified + Bump(IsFunctionLine(content))
                /\ classesModified' = classesModified + Bump(Includes(content, "class "))
                /\ interfacesModified' =
                       interfacesModified + Bump(Includes(content, "interface "))
           ELSE UNCHANGED <<modifiedFiles, totalLinesAdded, functionsModified,
                            classesModified, interfacesModified>>
    /\ lineNo' = lineNo + 1
    /\ UNCHANGED <<diff, currentFile, totalLinesRemoved, preview, logicSummary, parsePc>>
    /\ UNCHANGED notParseVars

\* lines 143-167: a line that starts with "-" and not with "---"
ReadRemovedLine ==
    /\ parsePc = "lines" /\ lineNo <= DiffLen(diff)
    /\ LET l == LineAt(diff, lineNo)
           content == Trim(l.text)
           i == FileIndex(modifiedFiles, currentFile) IN
        /\ l.k = "del"
        /\ IF AcceptsRemoved(modifiedFiles, currentFile, content)
           THEN /\ modifiedFiles' = [modifiedFiles EXCEPT ![i].removed = Append(@, content)]
                /\ totalLinesRemoved' = totalLinesRemoved + 1
                /\ functionsModified' = functionsModified + Bump(IsFunctionLine(content))
                /\ classesModified' = classesModified + Bump(Includes(content, "class "))
                /\ interfacesModified' =
                       interfacesModified + Bump(Includes(content, "interface "))
           ELSE UNCHANGED <<modifiedFiles, totalLinesRemoved, functionsModified,
                            classesModified, interfacesModified>>
    /\ lineNo' = lineNo + 1
    /\ UNCHANGED <<diff, currentFile, totalLinesAdded, preview, logicSummary, parsePc>>
    /\ UNCHANGED notParseVars

\* lines 86-172: any other line ("+++ ", "--- ", the binary marker, context)
\* matches no branch and changes nothing
ReadOtherLine ==
    /\ parsePc = "lines" /\ lineNo <= DiffLen(diff)
    /\ LineAt(diff, lineNo).k \in {"+++", "---", "bin", "ctx"}
    /\ lineNo' = lineNo + 1
    /\ UNCHANGED <<diff, modifiedFiles, currentFile, totalLinesAdded,
                   totalLinesRemoved, functionsModified, classesModified,
                   interfacesModified, preview, logicSummary, parsePc>>
    /\ UNCHANGED notParseVars

----------------------------------------------------------------------------
(* processDiffForPreview: summary, narrative and per-file analysis.        *)

\* .slice(0, 100): the changed-files list shows at most 100 files
MaxFilesListed == 100

\* maxFilesToProcess
MaxFilesToProcess == 20

\* .slice(0, 2): at most two example snippets per file
MaxExamples == 2

SeqCount(s, Test(_)) == Len(SelectSeq(s, Test))

SeqSome(s, Test(_)) == \E i \in 1..Len(s) : Test(s[i])

FirstN(s, n) == SubSeq(s, 1, Min(n, Len(s)))

\* lines 219-226: env values and config literals, never shown
IsSecretLine(c) ==
    \/ Includes(c, "API_KEY")
    \/ Includes(c, "SECRET")
    \/ Includes(c, "PASSWORD")
    \/ Includes(c, "TOKEN")
    \/ (Includes(c, "=quoted") /\ Includes(c, "config"))

\* lines 208-255: the filter of logicRelatedChanges
IsLogicRelated(c) ==
    /\ ~(StartsWith(c, "import ") \/ StartsWith(c, "require("))
    /\ ~IsSecretLine(c)
    /\ \/ (Includes(c, "function") /\ Includes(c, "("))
       \/ (Includes(c, "class") /\ Includes(c, "{"))
       \/ Includes(c, "interface ")
       \/ (Includes(c, "const ") /\ Includes(c, "=") /\ Includes(c, "("))
       \/ Includes(c, "api.")
       \/ Includes(c, "endpoint")
       \/ Includes(c, "route")
       \/ Includes(c, "schema")
       \/ Includes(c, "model")
       \/ Includes(c, "component")
       \/ (Includes(c, "return") /\ Includes(c, "<") /\ Includes(c, ">"))

\* lines 198-203: node_modules, env files, lock files and logs get no section
IsSkippedPath(f) ==
    \/ PathIncludes(f, "node_modules")
    \/ PathEndsWith(f, ".env")
    \/ PathEndsWith(f, ".lock")
    \/ PathEndsWith(f, ".log")

\* analyzeFileChanges: the heading of the analysis and whether it ends with
\* "Example changes:"
analyzeFileChanges(f, data) ==
    LET ext == PathExt(f)
        IsFn(c) == Includes(c, "function") /\ Includes(c, "(")
        IsComponent(c) ==
            Includes(c, "component")
            \/ (Includes(c, "return") /\ Includes(c, "<") /\ Includes(c, ">"))
        IsApi(c) == Includes(c, "api.") \/ Includes(c, "endpoint") \/ Includes(c, "route")
        IsDataModel(c) ==
            Includes(c, "schema") \/ Includes(c, "model") \/ Includes(c, "interface ")
        generic == [heading |-> "Code Changes", example |-> Len(data.added) > 0]
    IN  IF ext \in {"tsx", "jsx"} \/ PathIncludes(f, "component")
        THEN IF SeqSome(data.added, IsComponent)
             THEN [heading |-> "UI Component Changes", example |-> TRUE]
             ELSE generic
        ELSE IF ext \in {"ts", "js"}
        THEN IF SeqSome(data.added, IsFn)
             THEN IF SeqSome(data.added, IsApi)
                  THEN [heading |-> "API Logic Changes", example |-> TRUE]
                  ELSE [heading |-> "Business Logic Changes", example |-> TRUE]
             ELSE IF SeqSome(data.added, IsDataModel)
                  THEN [heading |-> "Data Model Changes", example |-> TRUE]
                  ELSE generic
        ELSE IF ext \in {"css", "scss"}
        THEN [heading |-> "Styling Changes", example |-> FALSE]
        ELSE IF ext = "json"
        THEN [heading |-> "Configuration Changes", example |-> FALSE]
        ELSE IF ext = "md"
        THEN [heading |-> "Documentation Changes", example |-> FALSE]
        ELSE generic

\* lines 257-294: the section of one file, <<>> when no added line is logic related
FileSection(data) ==
    LET logicRelatedChanges == SelectSeq(data.added, IsLogicRelated)
        analysis == analyzeFileChanges(data.file, data)
        shown == FirstN(logicRelatedChanges, MaxExamples)
    IN  IF Len(logicRelatedChanges) = 0 THEN <<>>
        ELSE << [ kind |-> "section", file |-> data.file, n |-> 0,
                  heading |-> analysis.heading,
                  examples |-> IF analysis.example
                               THEN [i \in 1..Len(shown) |-> CleanChange(shown[i])]
                               ELSE <<>> ] >>

MoreFilesNotice(n) ==
    [kind |-> "more", file |-> NoFile, n |-> n, heading |-> "", examples |-> <<>>]

\* the cap tested one file too late
CapReachedLate(processedFiles) == processedFiles > MaxFilesToProcess

\* line 187: processedFiles >= maxFilesToProcess
CapReached(processedFiles) == processedFiles >= MaxFilesToProcess

RECURSIVE MainLogicChanges(_, _, _)
\* lines 182-301: the loop over modifiedFiles.entries() from entry i on, with
\* processedFiles files processed so far
MainLogicChanges(m, i, processedFiles) ==
    IF i > Len(m) THEN <<>>
    ELSE IF CapReached(processedFiles)
    THEN <<MoreFilesNotice(Len(m) - processedFiles)>>
    ELSE IF IsSkippedPath(m[i].file)
    THEN MainLogicChanges(m, i + 1, processedFiles)
    ELSE FileSection(m[i]) \o MainLogicChanges(m, i + 1, processedFiles + 1)

\* determineBusinessImpact
determineBusinessImpact(f, data) ==
    LET ext == PathTable[f.stem].extLower
        totalChanges == Len(data.added) + Len(data.removed)
        IsBusiness(c) ==
            \/ Includes(c, "business") \/ Includes(c, "validate")
            \/ Includes(c, "process") \/ Includes(c, "calculate")
            \/ Includes(c, "transform")
        IsApi(c) == Includes(c, "router") \/ Includes(c, "endpoint") \/ Includes(c, "api")
        IsData(c) == Includes(c, "model") \/ Includes(c, "schema") \/ Includes(c, "database")
    IN  IF ext \in {"ts", "js"}
        THEN IF SeqSome(data.added, IsBusiness) /\ totalChanges > 20
             THEN "High - Core business logic modifications"
             ELSE IF SeqSome(data.added, IsApi) THEN "Medium - API interface changes"
             ELSE IF SeqSome(data.added, IsData)
             THEN "Medium - Data structure modifications"
             ELSE IF totalChanges > 50 THEN "Medium - Significant code changes"
             ELSE "Low - Minor code adjustments"
        ELSE IF ext = "json"
        THEN IF PathIncludes(f, "package.json")
             THEN "Medium - Dependency changes affecting project"
             ELSE "Low - Configuration updates"
        ELSE IF ext = "md" THEN "Low - Documentation updates"
        ELSE IF ext \in {"css", "scss"} THEN "Low - Styling modifications"
        ELSE IF ext \in {"yml", "yaml"} THEN "Medium - Infrastructure or CI/CD changes"
        ELSE "Unknown - Requires manual assessment"

\* the hunk headers of the file are counted with its added lines
FileAnalysisCountingHunks(data) ==
    LET linesAdded == Len(data.added) + Len(data.changes)
        linesRemoved == Len(data.removed)
        totalChanges == linesAdded + linesRemoved
    IN  [ file |-> data.file,
          changeType |-> IF linesAdded > linesRemoved * 2 THEN "Addition"
                         ELSE IF linesRemoved > linesAdded * 2 THEN "Deletion"
                         ELSE "Modification",
          complexity |-> IF totalChanges > 50 THEN "High"
                         ELSE IF totalChanges > 20 THEN "Medium" ELSE "Low",
          linesAdded |-> linesAdded,
          linesRemoved |-> linesRemoved,
          businessImpact |-> determineBusinessImpact(data.file, data) ]

\* lines 308-332: the FileAnalysis of one entry
FileAnalysis(data) ==
    LET linesAdded == Len(data.added)
        linesRemoved == Len(data.removed)
        totalChanges == linesAdded + linesRemoved
    IN  [ file |-> data.file,
          changeType |-> IF linesAdded > linesRemoved * 2 THEN "Addition"
                         ELSE IF linesRemoved > linesAdded * 2 THEN "Deletion"
                         ELSE "Modification",
          complexity |-> IF totalChanges > 50 THEN "High"
                         ELSE IF totalChanges > 20 THEN "Medium" ELSE "Low",
          linesAdded |-> linesAdded,
          linesRemoved |-> linesRemoved,
          businessImpact |-> determineBusinessImpact(data.file, data) ]

\* only the files of the changed-files list are analysed
FileAnalysisOfListed(m) ==
    [i \in 1..Min(Len(m), MaxFilesListed) |-> FileAnalysis(m[i])]

\* lines 307-332: for (const [file, data] of modifiedFiles.entries())
FileAnalysisResults(m) == [i \in 1..Len(m) |-> FileAnalysis(m[i])]

\* lines 338-345: avgChangesPerFile > 100, > 50
ComplexityScore(added, removed, filesCount) ==
    LET files == Max(filesCount, 1) IN
    IF added + removed > 100 * files THEN "High"
    ELSE IF added + removed > 50 * files THEN "Medium" ELSE "Low"

\* lines 174-362: the returned value
ComposePreview ==
    /\ parsePc = "lines" /\ lineNo > DiffLen(diff)
    /\ preview' =
        [ changesSummary |-> "stats",
          files |-> FirstN([i \in 1..Len(modifiedFiles) |-> modifiedFiles[i].file],
                           MaxFilesListed),
          mainLogicChanges |-> MainLogicChanges(modifiedFiles, 1, 0),
          technicalMetrics |->
              [ totalFiles |-> Len(modifiedFiles),
                linesAdded |-> totalLinesAdded,
                linesRemoved |-> totalLinesRemoved,
                functionsModified |-> functionsModified,
                classesModified |-> classesModified,
                interfacesModified |-> interfacesModified,
                complexityScore |-> ComplexityScore(totalLinesAdded, totalLinesRemoved,
                                                    Len(modifiedFiles)) ],
          fileAnalysis |-> FileAnalysisResults(modifiedFiles) ]
    /\ parsePc' = "fallback"
    /\ UNCHANGED <<diff, lineNo, modifiedFiles, currentFile, totalLinesAdded,
                   totalLinesRemoved, functionsModified, classesModified,
                   interfacesModified, logicSummary>>
    /\ UNCHANGED notParseVars

----------------------------------------------------------------------------
(* processDiffForPreview as a function of the diff: the same steps, folded *)
(* over the lines.                                                         *)

\* lines 60-83: the locals of one call
FreshLocals ==
    [ modifiedFiles |-> <<>>, currentFile |-> NoFile,
      totalLinesAdded |-> 0, totalLinesRemoved |-> 0,
      functionsModified |-> 0, classesModified |-> 0, interfacesModified |-> 0 ]

\* lines 87-167: the body of the loop for one line
LineStep(st, l) ==
    LET content == Trim(l.text)
        i == FileIndex(st.modifiedFiles, st.currentFile)
        technical ==
            [st EXCEPT !.functionsModified = @ + Bump(IsFunctionLine(content)),
                       !.classesModified = @ + Bump(Includes(content, "class ")),
                       !.interfacesModified = @ + Bump(Includes(content, "interface "))]
    IN  IF l.k = "hdr"
        THEN [st EXCEPT !.currentFile = l.file,
                        !.modifiedFiles = SetFile(st.modifiedFiles, l.file)]
        ELSE IF l.k = "hunk" /\ i # 0
        THEN [st EXCEPT !.modifiedFiles[i].changes = Append(@, content)]
        ELSE IF l.k = "add" /\ AcceptsAdded(st.modifiedFiles, st.currentFile, content)
        THEN [technical EXCEPT !.modifiedFiles[i].added = Append(@, content),
                               !.totalLinesAdded = @ + 1]
        ELSE IF l.k = "del" /\ AcceptsRemoved(st.modifiedFiles, st.currentFile, content)
        THEN [technical EXCEPT !.modifiedFiles[i].removed = Append(@, content),
                               !.totalLinesRemoved = @ + 1]
        ELSE st

RECURSIVE LinesFrom(_, _, _)
\* lines 86-172: for (const line of lines), from line i on
LinesFrom(st, d, i) ==
    IF i > DiffLen(d) THEN st ELSE LinesFrom(LineStep(st, LineAt(d, i)), d, i + 1)

\* lines 174-362: the returned value, from the locals after the loop
PreviewOf(st) ==
    [ changesSummary |-> "stats",
      files |-> FirstN([i \in 1..Len(st.modifiedFiles) |-> st.modifiedFiles[i].file],
                       MaxFilesListed),
      mainLogicChanges |-> MainLogicChanges(st.modifiedFiles, 1, 0),
      technicalMetrics |->
          [ totalFiles |-> Len(st.modifiedFiles),
            linesAdded |-> st.totalLinesAdded,
            linesRemoved |-> st.totalLinesRemoved,
            functionsModified |-> st.functionsModified,
            classesModified |-> st.classesModified,
            interfacesModified |-> st.interfacesModified,
            complexityScore |-> ComplexityScore(st.totalLinesAdded, st.totalLinesRemoved,
                                                Len(st.modifiedFiles)) ],
      fileAnalysis |-> FileAnalysisResults(st.modifiedFiles) ]

\* lines 34-49 and 60-362
processDiffForPreview(d) ==
    IF IsBlankDiff(AsString(d)) THEN EmptyPreview
    ELSE PreviewOf(LinesFrom(FreshLocals, d, 1))

----------------------------------------------------------------------------
(* generateSimpleLogicSummary: the excerpt of the fallback document.       *)

\* .slice(0, 5)
MaxExcerptLines == 5

\* line.includes(p) on a raw diff line
LineIncludes(l, p) ==
    IF l.k \in {"add", "del", "ctx", "hunk"} THEN Includes(l.text, p)
    ELSE IF l.k \in {"hdr", "+++", "---"} THEN PathIncludes(l.file, p)
    ELSE IF l.k = "bin" THEN p = "Binary files" \/ PathIncludes(l.file, p)
    ELSE FALSE

\* line.startsWith("+")
StartsWithPlus(l) == l.k \in {"add", "+++"}

\* line.startsWith("-")
StartsWithMinus(l) == l.k \in {"del", "---"}

\* lines 164-171: an added line that names a code structure
IsSummaryLine(l) ==
    /\ StartsWithPlus(l)
    /\ \/ LineIncludes(l, "function") \/ LineIncludes(l, "class")
       \/ LineIncludes(l, "interface") \/ LineIncludes(l, "export")
       \/ LineIncludes(l, "import")

\* line.substring(1).trim(): of "+++ b/<file>" the text "++ b/<file>" is left
Excerpt(l) == IF l.k = "add" THEN Line("add", NoFile, Trim(l.text)) ELSE l

IsNonEmptyExcerpt(l) == l.k # "add" \/ l.text # ""

DiffLines(d) == [i \in 1..DiffLen(d) |-> LineAt(d, i)]

\* interpretMarkdownChanges.ts 143-190
generateSimpleLogicSummary(d) ==
    IF IsBlankDiff(AsString(d))
    THEN [note |-> "No changes detected in the provided diff", lines |-> <<>>]
    ELSE LET picked == SelectSeq(DiffLines(d), IsSummaryLine)
             mapped == [i \in 1..Len(picked) |-> Excerpt(picked[i])]
             logicChanges == FirstN(SelectSeq(mapped, IsNonEmptyExcerpt), MaxExcerptLines)
         IN  IF logicChanges = <<>>
             THEN [note |-> "Basic functionality changes detected", lines |-> <<>>]
             ELSE [note |-> "", lines |-> logicChanges]

\* generateFallbackPRMarkdown (pr-template.md 498-508) embeds the excerpt of the
\* same diff in the fallback document
SimpleLogicSummary ==
    /\ parsePc = "fallback"
    /\ logicSummary' = generateSimpleLogicSummary(diff)
    /\ parsePc' = "done"
    /\ UNCHANGED <<diff, lineNo, modifiedFiles, currentFile, totalLinesAdded,
                   totalLinesRemoved, functionsModified, classesModified,
                   interfacesModified, preview>>
    /\ UNCHANGED notParseVars

----------------------------------------------------------------------------
(* The diffs explored.                                                     *)

MaxDiffLines == 3

SrcFile == File("src/f.ts", 1)

DocFile == File("README.md", 1)

FnText == "function run(a) {"

KeyText == "export const API_KEY = \"k\";"

PlainText == "x = 1;"

LineAlphabet ==
    { Hdr(SrcFile), Hdr(DocFile), Line("badhdr", NoFile, ""),
      Line("hunk", NoFile, PlainText),
      Add(FnText), Add(KeyText), Add("  "), Del(PlainText),
      Line("+++", SrcFile, ""), Line("bin", SrcFile, ""), Line("ctx", NoFile, "") }

\* every diff of at most MaxDiffLines lines over the alphabet
ShortDiffs == SeqsUpTo({Run(l, 1) : l \in LineAlphabet}, MaxDiffLines)

DepText == "\"react-router\": \"6.0.0\","

\* a lock file, a log, an env file, a vendored module or a build output with
\* k added lines, followed by a source file
ExcludedPathDiffs ==
    { << Run(Hdr(File(f, 1)), 1), Run(Add(DepText), k), Run(Add(FnText), 1),
         Run(Del(PlainText), 1), Run(Hdr(SrcFile), 1), Run(Add(FnText), 1) >> :
        f \in {"package-lock.json", "yarn.lock", "out.log", "app.env",
                "node_modules/m/i.js", "dist/app.min.js"},
        k \in {1, MaxLinesPerFile} }

\* n files stem#1 .. stem#n, each with one added function line
FileBlocks(stem, n) ==
    [j \in 1..(2 * n) |-> IF j % 2 = 1 THEN Run(Hdr(File(stem, (j + 1) \div 2)), 1)
                                        ELSE Run(Add(FnText), 1)]

LockBlock == << Run(Hdr(File("yarn.lock", 1)), 1), Run(Add(FnText), 1) >>

\* diffs around the cap on processed files, with a lock file before or after
ManyFileDiffs ==
    { FileBlocks("src/f.ts", n) : n \in (MaxFilesToProcess - 1)..(MaxFilesToProcess + 2) }
    \cup { LockBlock \o FileBlocks("src/f.ts", MaxFilesToProcess + 1),
           FileBlocks("src/f.ts", MaxFilesToProcess) \o LockBlock }

\* a documentation, stylesheet, YAML, image or extension-less file with few
\* or many added lines
ImpactDiffs ==
    { << Run(Hdr(File(f, 1)), 1), Run(Add(PlainText), k) >> :
        f \in {"README.md", "theme.css", "ci.yml", "img.png", "Makefile"},
        k \in {1, 60} }

\* diffs that reach the per-file cap, the file-list cap, and a binary section
\* followed by another file
LongDiffs ==
    { << Run(Hdr(SrcFile), 1), Run(Add(PlainText), k), Run(Add(FnText), 1),
         Run(Del(PlainText), 1), Run(Hdr(DocFile), 1), Run(Add(FnText), 1) >> :
        k \in {MaxLinesPerFile - 1, MaxLinesPerFile + 1} }
    \cup
    { << Run(Hdr(SrcFile), 1), Run(Del(PlainText), MaxLinesPerFile + 1),
         Run(Add(FnText), 1) >>,
      << Run(Hdr(SrcFile), 1), Run(Add(PlainText), MaxLinesPerFile + 3),
         Run(Del(PlainText), MaxLinesPerFile \div 2 + 1) >>,
      << HeaderRun("src/f.ts", MaxFilesListed + 1), Run(Add(FnText), 1) >>,
      << Run(Hdr(SrcFile), 1), Run(Line("bin", SrcFile, ""), 1), Run(Add(FnText), 1),
         Run(Hdr(DocFile), 1), Run(Add(FnText), 1) >> }
    \cup ExcludedPathDiffs
    \cup ManyFileDiffs
    \cup ImpactDiffs

\* the empty string and an argument that is not a string
NoLineDiffs == {<<>>, NotAString}

Diffs == ShortDiffs \cup LongDiffs \cup NoLineDiffs

NoPreview == [EmptyPreview EXCEPT !.changesSummary = ""]

ParseIdle ==
    /\ diff = <<>>
    /\ lineNo = 0
    /\ modifiedFiles = <<>>
    /\ currentFile = NoFile
    /\ totalLinesAdded = 0
    /\ totalLinesRemoved = 0
    /\ functionsModified = 0
    /\ classesModified = 0
    /\ interfacesModified = 0
    /\ preview = NoPreview
    /\ logicSummary = [note |-> "", lines |-> <<>>]
    /\ parsePc = "idle"

ParseInit ==
    /\ diff \in Diffs
    /\ lineNo = 0
    /\ modifiedFiles = <<>>
    /\ currentFile = NoFile
    /\ totalLinesAdded = 0
    /\ totalLinesRemoved = 0
    /\ functionsModified = 0
    /\ classesModified = 0
    /\ interfacesModified = 0
    /\ preview = NoPreview
    /\ logicSummary = [note |-> "", lines |-> <<>>]
    /\ parsePc = "entry"

ParseNext ==
    \/ ParseBlank
    \/ ParseStart
    \/ ReadFileHeader
    \/ ReadHunkHeader
    \/ ReadAddedLine
    \/ ReadRemovedLine
    \/ ReadOtherLine
    \/ ComposePreview
    \/ SimpleLogicSummary

----------------------------------------------------------------------------
(* AI analysis: requestCursorAIAnalysis, analyzeWithCursorAI,              *)
(* parseAIAnalysisResponse and its legacy parser, and the rule-based       *)
(* generateFallbackAnalysis of aiAnalysis.ts and of its copy part_001.     *)
(* Confidences are in percent.                                             *)

\* diff.includes(p) and diff.toLowerCase().includes(p); no pattern holds a
\* line break, so a match lies within one line
LineLowerIncludes(l, p) ==
    IF l.k \in {"add", "del", "ctx", "hunk"} THEN p \in TextTable[l.text].lower
    ELSE IF l.k \in {"hdr", "+++", "---", "bin"} THEN p \in PathTable[l.file.stem].lower
    ELSE FALSE

DiffIncludes(d, p) == \E i \in 1..Len(d) : LineIncludes(d[i].line, p)

DiffLowerIncludes(d, p) == \E i \in 1..Len(d) : LineLowerIncludes(d[i].line, p)

RECURSIVE SumSeq(_)
SumSeq(s) == IF s = <<>> THEN 0 ELSE s[1] + SumSeq(Tail(s))

\* lines.filter((line) => line.startsWith("+")).length
AddedLineCount(d) ==
    SumSeq([i \in 1..Len(d) |-> IF StartsWithPlus(d[i].line) THEN d[i].n ELSE 0])

\* lines.filter((line) => line.startsWith("-")).length
RemovedLineCount(d) ==
    SumSeq([i \in 1..Len(d) |-> IF StartsWithMinus(d[i].line) THEN d[i].n ELSE 0])

\* part_004 607-637: lines that start with "+" and not with "+++", lines that
\* start with "-" and not with "---", and the "diff --git" lines
generateTechnicalMetrics(d) ==
    LET Count(kind) == SumSeq([i \in 1..Len(d) |-> IF d[i].line.k = kind THEN d[i].n ELSE 0])
    IN  [ totalFiles |-> Count("hdr"),
          addedLines |-> Count("add"),
          removedLines |-> Count("del") ]

\* the Set of line.split(" ")[3].replace("b/", "") over the "diff --git" lines
HeaderFiles(d) ==
    {LineAt(d, i).file : i \in {j \in 1..DiffLen(d) : LineAt(d, j).k = "hdr"}}

\* aiAnalysis.ts 616-625
ChangeTypeOf(d) ==
    IF DiffIncludes(d, "test") \/ DiffIncludes(d, "spec") THEN "testing"
    ELSE IF DiffIncludes(d, "README") \/ DiffIncludes(d, ".md") THEN "docs"
    ELSE IF DiffIncludes(d, "fix") \/ DiffIncludes(d, "bug") THEN "bugfix"
    ELSE IF AddedLineCount(d) > RemovedLineCount(d) * 2
         THEN "feature"
    ELSE "refactor"

\* part_001 238-279
SmartChangeTypeOf(d) ==
    IF \/ DiffLowerIncludes(d, "test") \/ DiffLowerIncludes(d, "spec")
       \/ DiffLowerIncludes(d, ".test.") THEN "testing"
    ELSE IF \/ DiffLowerIncludes(d, "readme") \/ DiffLowerIncludes(d, ".md")
            \/ DiffLowerIncludes(d, "doc") THEN "docs"
    ELSE IF \/ DiffLowerIncludes(d, "fix") \/ DiffLowerIncludes(d, "bug")
            \/ DiffLowerIncludes(d, "error") THEN "bugfix"
    ELSE IF \/ DiffLowerIncludes(d, "security") \/ DiffLowerIncludes(d, "auth")
            \/ DiffLowerIncludes(d, "permission") THEN "security"
    ELSE IF \/ DiffLowerIncludes(d, "performance") \/ DiffLowerIncludes(d, "optimize")
            \/ DiffLowerIncludes(d, "cache") THEN "performance"
    ELSE IF AddedLineCount(d) > RemovedLineCount(d) * 2
         THEN "feature"
    ELSE IF \/ DiffLowerIncludes(d, "style") \/ DiffLowerIncludes(d, "css")
            \/ DiffLowerIncludes(d, "format") THEN "style"
    ELSE "refactor"

\* changeType.charAt(0).toUpperCase() + changeType.slice(1)
Capitalize ==
    "testing" :> "Testing" @@ "docs" :> "Docs" @@ "bugfix" :> "Bugfix" @@
    "security" :> "Security" @@ "performance" :> "Performance" @@
    "style" :> "Style" @@ "feature" :> "Feature" @@ "refactor" :> "Refactor"

FallbackConfidence == 60

SmartFallbackConfidence == 70

\* aiAnalysis.ts 599-647 ("aiAnalysis.ts") and part_001 221-304 ("part_001")
generateFallbackAnalysis(variant, d) ==
    LET smart == variant = "part_001"
        changeType == IF smart THEN SmartChangeTypeOf(d) ELSE ChangeTypeOf(d)
        files == HeaderFiles(d)
    IN  [ prTitle |-> Capitalize[changeType],
          prDescription |-> "This PR includes changes",
          addedLines |-> AddedLineCount(d),
          removedLines |-> RemovedLineCount(d),
          fileCount |-> Cardinality(files),
          potentialUnnecessaryFiles |->
              IF smart
              THEN {f \in files :
                      \/ PathIncludes(f, "package-lock.json") \/ PathIncludes(f, "yarn.lock")
                      \/ PathIncludes(f, ".log") \/ PathEndsWith(f, ".min.js")
                      \/ PathIncludes(f, "dist/") \/ PathIncludes(f, "build/")}
              ELSE {f \in files :
                      \/ PathIncludes(f, "lock") \/ PathIncludes(f, "log")
                      \/ PathEndsWith(f, ".min.js")},
          changeType |-> changeType,
          confidence |-> IF smart THEN SmartFallbackConfidence ELSE FallbackConfidence ]

(* A sampling response is undefined (not a string), or text in the current *)
(* format, sections "### <header>\n<content>", or text in the older        *)
(* format, pieces "**<label> <content>**" one per line.  The headers       *)
(* "Confidence Level:" and "Change Classification:" stand for the header    *)
(* with its emoji, which the parser also requires.                         *)

\* content.replace(/^\[|\]$/g, "").trim() and, of that, toLowerCase().includes
ContentTable ==
    "" :> [stripped |-> "", words |-> {}] @@
    "text" :> [stripped |-> "text", words |-> {}] @@
    "[]" :> [stripped |-> "", words |-> {}] @@
    "[High]" :> [stripped |-> "High", words |-> {"high"}] @@
    "medium" :> [stripped |-> "medium", words |-> {"medium"}] @@
    "low" :> [stripped |-> "low", words |-> {"low"}] @@
    "low to medium" :> [stripped |-> "low to medium", words |-> {"low", "medium"}]

StripBrackets(c) == ContentTable[c].stripped

MaxResponseSections == 2

SectionAlphabet ==
    [h : {"PR Title:", "PR Description:"}, c : {"text", "[]"}]
    \cup [h : {"Confidence Level:"}, c : {"text", "[High]", "medium", "low", "low to medium"}]
    \cup [h : {"Change Classification:", "Notes"}, c : {"text"}]

PieceAlphabet ==
    [h : {"PR Title:", "PR Description:", "Change Type:", "Notes"}, c : {"", "text"}]

Responses ==
    {[fmt |-> "undefined", secs |-> <<>>], [fmt |-> "sections", secs |-> <<>>]}
    \cup {[fmt |-> "sections", secs |-> s] : s \in SeqsUpTo(SectionAlphabet, MaxResponseSections)}
    \cup {[fmt |-> "legacy", secs |-> s] : s \in SeqsUpTo(PieceAlphabet, MaxResponseSections)}

\* response.split(/###\s*/).filter((section) => section.trim()); of text in
\* the older format, the whole text is one section and its first line the header
NewSections(r) ==
    IF r.fmt = "sections" THEN r.secs
    ELSE << [ h |-> r.secs[1].h, c |-> IF Len(r.secs) > 1 THEN "text" ELSE "" ] >>

\* response.split("**").filter((section) => section.trim()); text in the
\* current format holds no "**" and is one piece that starts with "###"
LegacyPieces(r) ==
    IF r.fmt = "legacy" THEN r.secs
    ELSE IF r.secs = <<>> THEN <<>> ELSE << [h |-> "Notes", c |-> "text"] >>

DefaultConfidence == 80

LegacyErrorConfidence == 30

\* aiAnalysis.ts 341-353 and 465-477
InitialResult ==
    [ prTitle |-> "", prDescription |-> "", addedLines |-> 0, removedLines |-> 0,
      fileCount |-> 0, potentialUnnecessaryFiles |-> {}, changeType |-> "",
      confidence |-> DefaultConfidence ]

\* aiAnalysis.ts 508-521
LegacyErrorResult ==
    [ InitialResult EXCEPT !.prTitle = "Code Changes",
                           !.prDescription = "Multiple code changes detected",
                           !.changeType = "refactor",
                           !.confidence = LegacyErrorConfidence ]

\* aiAnalysis.ts 436-442
ConfidenceOf(c, old) ==
    IF "high" \in ContentTable[c].words THEN 90
    ELSE IF "medium" \in ContentTable[c].words THEN 70
    ELSE IF "low" \in ContentTable[c].words THEN 40
    ELSE old

\* aiAnalysis.ts 355-444: one pass of the loop over the sections
ApplySection(res, s) ==
    IF s.h = "PR Title:" THEN [res EXCEPT !.prTitle = StripBrackets(s.c)]
    ELSE IF s.h = "PR Description:" THEN [res EXCEPT !.prDescription = StripBrackets(s.c)]
    ELSE IF s.h = "Change Classification:" THEN [res EXCEPT !.changeType = StripBrackets(s.c)]
    ELSE IF s.h = "Confidence Level:"
         THEN [res EXCEPT !.confidence = ConfidenceOf(s.c, res.confidence)]
    ELSE res

\* aiAnalysis.ts 479-503: one pass of the loop over the pieces
ApplyPiece(res, s) ==
    IF s.h = "PR Title:" THEN [res EXCEPT !.prTitle = s.c]
    ELSE IF s.h = "PR Description:" THEN [res EXCEPT !.prDescription = s.c]
    ELSE IF s.h = "Change Type:" THEN [res EXCEPT !.changeType = s.c]
    ELSE res

Returned(fn, res) == [fn |-> fn, confidence |-> res.confidence, changeType |-> res.changeType]

\* cursorAI.ts 222-249 and 40-45: without a sampling function the analysis
\* is the rule-based one
RequestAnalysis ==
    /\ anPc = "entry"
    /\ anCall = "requestCursorAIAnalysis"
    /\ anPc' = IF sampling = "undefined" THEN "fallback" ELSE "sampling"
    /\ UNCHANGED <<anCall, anVariant, anDiff, sampling, response, anResult, anIdx, returned>>
    /\ UNCHANGED notAnalysisVars

\* a rejection of the request that no catch clause handles
SampleUncaught ==
    /\ anPc = "sampling"
    /\ anPc' = IF sampling = "rejects" THEN "rejected" ELSE "parse"
    /\ UNCHANGED <<anCall, anVariant, anDiff, sampling, response, anResult, anIdx, returned>>
    /\ UNCHANGED notAnalysisVars

\* cursorAI.ts 47-63 and 69-73: the request to the client resolves to a
\* response or rejects
Sample ==
    /\ anPc = "sampling"
    /\ anPc' = IF sampling = "rejects" THEN "fallback" ELSE "parse"
    /\ UNCHANGED <<anCall, anVariant, anDiff, sampling, response, anResult, anIdx, returned>>
    /\ UNCHANGED notAnalysisVars

\* aiAnalysis.ts 580-594 (cursorAI.ts 44, 72) and part_001 43, 71
FallbackAnalysis ==
    /\ anPc = "fallback"
    /\ anResult' = generateFallbackAnalysis(anVariant, anDiff)
    /\ returned' = Append(returned, Returned("generateFallbackAnalysis", anResult'))
    /\ anPc' = "done"
    /\ UNCHANGED <<anCall, anVariant, anDiff, sampling, response, anIdx>>
    /\ UNCHANGED notAnalysisVars

\* a direct call of the exported parseAIAnalysisResponse
ParseEntry ==
    /\ anPc = "entry"
    /\ anCall = "parseAIAnalysisResponse"
    /\ anPc' = "parse"
    /\ UNCHANGED <<anCall, anVariant, anDiff, sampling, response, anResult, anIdx, returned>>
    /\ UNCHANGED notAnalysisVars

\* aiAnalysis.ts 335-353; response.split throws on a value that is not a
\* string and the catch of 452-455 hands it to the legacy parser
ParseBegin ==
    /\ anPc = "parse"
    /\ IF response.fmt = "undefined"
       THEN anPc' = "legacy" /\ UNCHANGED <<anResult, anIdx>>
       ELSE anPc' = "sections" /\ anResult' = InitialResult /\ anIdx' = 1
    /\ UNCHANGED <<anCall, anVariant, anDiff, sampling, response, returned>>
    /\ UNCHANGED notAnalysisVars

\* aiAnalysis.ts 355-444
ParseSection ==
    /\ anPc = "sections"
    /\ anIdx <= Len(NewSections(response))
    /\ anResult' = ApplySection(anResult, NewSections(response)[anIdx])
    /\ anIdx' = anIdx + 1
    /\ UNCHANGED <<anCall, anVariant, anDiff, sampling, response, anPc, returned>>
    /\ UNCHANGED notAnalysisVars

\* aiAnalysis.ts 446-451
ParseEnd ==
    /\ anPc = "sections"
    /\ anIdx > Len(NewSections(response))
    /\ IF anResult.prTitle = "" \/ anResult.prDescription = ""
       THEN anPc' = "legacy" /\ UNCHANGED returned
       ELSE /\ anPc' = "parsed"
            /\ returned' = Append(returned, Returned("parseAIAnalysisResponse", anResult))
    /\ UNCHANGED <<anCall, anVariant, anDiff, sampling, response, anResult, anIdx>>
    /\ UNCHANGED notAnalysisVars

\* aiAnalysis.ts 461-477 and, when split throws, 506-522
LegacyBegin ==
    /\ anPc = "legacy"
    /\ IF response.fmt = "undefined"
       THEN /\ anResult' = LegacyErrorResult
            /\ returned' = Append(returned,
                                  Returned("parseAIAnalysisResponseLegacy", anResult'))
            /\ anPc' = "parsed"
            /\ UNCHANGED anIdx
       ELSE /\ anResult' = InitialResult
            /\ anIdx' = 1
            /\ anPc' = "pieces"
            /\ UNCHANGED returned
    /\ UNCHANGED <<anCall, anVariant, anDiff, sampling, response>>
    /\ UNCHANGED notAnalysisVars

\* aiAnalysis.ts 479-503
LegacyPiece ==
    /\ anPc = "pieces"
    /\ anIdx <= Len(LegacyPieces(response))
    /\ anResult' = ApplyPiece(anResult, LegacyPieces(response)[anIdx])
    /\ anIdx' = anIdx + 1
    /\ UNCHANGED <<anCall, anVariant, anDiff, sampling, response, anPc, returned>>
    /\ UNCHANGED notAnalysisVars

\* aiAnalysis.ts 505
LegacyEnd ==
    /\ anPc = "pieces"
    /\ anIdx > Len(LegacyPieces(response))
    /\ returned' = Append(returned, Returned("parseAIAnalysisResponseLegacy", anResult))
    /\ anPc' = "parsed"
    /\ UNCHANGED <<anCall, anVariant, anDiff, sampling, response, anResult, anIdx>>
    /\ UNCHANGED notAnalysisVars

\* the parser has returned: to its caller (anCall), or to analyzeWithCursorAI,
\* which sets the confidence at cursorAI.ts 66 and returns
ParseReturn ==
    /\ anPc = "parsed"
    /\ IF anCall = "parseAIAnalysisResponse"
       THEN UNCHANGED <<anResult, returned>>
       ELSE /\ anResult' = [anResult EXCEPT !.confidence = 90]
            /\ returned' = Append(returned, Returned("analyzeWithCursorAI", anResult'))
    /\ anPc' = "done"
    /\ UNCHANGED <<anCall, anVariant, anDiff, sampling, response, anIdx>>
    /\ UNCHANGED notAnalysisVars

AuthText == "auth login password"

AnalysisFiles == {"src/f.ts", "src/auth.ts", "README.md", "theme.css", "src/f.test.ts",
                  "dist/app.min.js"}

AnalysisTexts == {PlainText, AuthText, "display: flex; /* css */",
                  "// fix: handle error", "cache.set(k, v);"}

\* one file with a added lines and r removed lines, with or without the
\* "--- a/<file>" and "+++ b/<file>" lines
AnalysisDiffs ==
    { << Run(Hdr(File(f, 1)), 1) >>
        \o (IF m THEN << Run(Line("---", File(f, 1), ""), 1),
                         Run(Line("+++", File(f, 1), ""), 1) >> ELSE <<>>)
        \o << Run(Add(t), a) >>
        \o (IF r > 0 THEN << Run(Del(PlainText), r) >> ELSE <<>>) :
        f \in AnalysisFiles, t \in AnalysisTexts, a \in {1, 80}, r \in {0, 1, 40},
        m \in BOOLEAN }

NoDiff == <<>>

AnalysisIdle ==
    /\ anCall = "none"
    /\ anVariant = "aiAnalysis.ts"
    /\ anDiff = NoDiff
    /\ sampling = "undefined"
    /\ response = [fmt |-> "undefined", secs |-> <<>>]
    /\ anResult = InitialResult
    /\ anIdx = 0
    /\ anPc = "idle"
    /\ returned = <<>>

\* a call of requestCursorAIAnalysis (of cursorAI.ts or of part_001) with a
\* diff and a sampling function, or of parseAIAnalysisResponse with a response
AnalysisInit ==
    /\ anCall \in {"requestCursorAIAnalysis", "parseAIAnalysisResponse"}
    /\ anVariant \in {"aiAnalysis.ts", "part_001"}
    /\ anDiff \in AnalysisDiffs \cup {NoDiff}
    /\ sampling \in {"undefined", "resolves", "rejects"}
    /\ response \in Responses
    /\ anCall = "parseAIAnalysisResponse" =>
          anVariant = "aiAnalysis.ts" /\ sampling = "undefined" /\ anDiff = NoDiff
    /\ (anCall = "requestCursorAIAnalysis" /\ sampling = "resolves") =>
          anDiff = << Run(Hdr(SrcFile), 1), Run(Add(PlainText), 1) >>
    /\ (anCall = "requestCursorAIAnalysis" /\ sampling # "resolves") =>
          response = [fmt |-> "undefined", secs |-> <<>>] /\ anDiff # NoDiff
    /\ anResult = InitialResult
    /\ anIdx = 0
    /\ anPc = "entry"
    /\ returned = <<>>

AnalysisNext ==
    \/ RequestAnalysis
    \/ Sample
    \/ FallbackAnalysis
    \/ ParseEntry
    \/ ParseBegin
    \/ ParseSection
    \/ ParseEnd
    \/ LegacyBegin
    \/ LegacyPiece
    \/ LegacyEnd
    \/ ParseReturn

----------------------------------------------------------------------------
(* generatePRFromTemplate and generateAIPoweredPR (part_004 32-116), with  *)
(* the chain of renderers behind them.  A document is modelled by the      *)
(* renderer that produced it; the empty string is the document "empty".    *)

\* the return "" of part_004 52 and 114
EmptyDocument == [kind |-> "empty", title |-> ""]

\* typeof title === "string" && title.trim() ? title : "Untitled PR"
SafeTitle(t) == IF t = "" THEN "Untitled PR" ELSE t

\* part_004 39-57; the catch of 53-57 is never entered, because
\* generateAIPoweredPR catches everything itself
GenerateEntry ==
    /\ genPc = "entry"
    /\ IF genInput.useAI = "true"
       THEN genPc' = "ai" /\ UNCHANGED genDoc
       ELSE genPc' = "resolved" /\ genDoc' = EmptyDocument
    /\ UNCHANGED <<genInput, genRaises>>
    /\ UNCHANGED notGenVars

\* part_004 70-88 and 109-115: detectProjectType catches its own errors;
\* analyzeCodeChangesWithAI rejects when the diff is not a string (diff.split
\* throws in generateFallbackAnalysis, again in the catch of aiAnalysis.ts 592)
AIPoweredStage ==
    /\ genPc = "ai"
    /\ IF genInput.diffIsString
       THEN genPc' = "enhanced" /\ UNCHANGED genDoc
       ELSE genPc' = "resolved" /\ genDoc' = EmptyDocument
    /\ UNCHANGED <<genInput, genRaises>>
    /\ UNCHANGED notGenVars

\* part_004 122-384: generateEnhancedPRMarkdown, whose catch calls generatePRMarkdown
RenderEnhanced ==
    /\ genPc = "enhanced"
    /\ IF "enhanced" \in genRaises
       THEN genPc' = "standard" /\ UNCHANGED genDoc
       ELSE genPc' = "resolved" /\ genDoc' = [kind |-> "enhanced", title |-> genInput.title]
    /\ UNCHANGED <<genInput, genRaises>>
    /\ UNCHANGED notGenVars

\* pr-template.md 309-473: generatePRMarkdown, whose catch calls
\* generateFallbackPRMarkdown
RenderStandard ==
    /\ genPc = "standard"
    /\ IF "standard" \in genRaises
       THEN genPc' = "fallback" /\ UNCHANGED genDoc
       ELSE /\ genPc' = "resolved"
            /\ genDoc' = [kind |-> "standard", title |-> SafeTitle(genInput.title)]
    /\ UNCHANGED <<genInput, genRaises>>
    /\ UNCHANGED notGenVars

\* pr-template.md 483-553: generateFallbackPRMarkdown, whose catch returns the
\* minimal template
RenderFallback ==
    /\ genPc = "fallback"
    /\ genDoc' = [kind |-> IF "fallback" \in genRaises THEN "minimal" ELSE "fallback",
                  title |-> SafeTitle(genInput.title)]
    /\ genPc' = "resolved"
    /\ UNCHANGED <<genInput, genRaises>>
    /\ UNCHANGED notGenVars

GenIdle ==
    /\ genInput = [useAI |-> "unset", title |-> "", description |-> "", diffIsString |-> TRUE]
    /\ genRaises = {}
    /\ genDoc = EmptyDocument
    /\ genPc = "idle"

\* a call with any title, description and diff, with options.useAI unset,
\* false or true, and any of the renderers raising
GenInit ==
    /\ genInput \in [useAI : {"unset", "false", "true"}, title : {"", "T"},
                     description : {"", "D"}, diffIsString : BOOLEAN]
    /\ genRaises \in SUBSET {"enhanced", "standard", "fallback"}
    /\ genDoc = EmptyDocument
    /\ genPc = "entry"

GenNext ==
    \/ GenerateEntry
    \/ AIPoweredStage
    \/ RenderEnhanced
    \/ RenderStandard
    \/ RenderFallback

\* the documents generatePRFromTemplate can resolve to for a string diff and
\* useAI: true, which is how the request handler calls it (index.ts 649-660)
HandlerDocuments(title) ==
    { [kind |-> "enhanced", title |-> title] }
    \cup { [kind |-> k, title |-> SafeTitle(title)] : k \in {"standard", "fallback", "minimal"} }

----------------------------------------------------------------------------
(* The generate_ai_pr request handler (index.ts 452-739).  Each action is  *)
(* one step of the handler with the outcome of the call it makes: a git    *)
(* command, chdir, writeFile.  An error thrown inside the try of 477 is    *)
(* wrapped by the catch of 722-732.                                        *)

\* 5 * 1024 * 1024
MaxInputBytes == 5242880

\* a change that touches this many log files
ManyLogFiles == 600

\* what git diff prints: its length, whether it is blank, and the lines it
\* is made of
DiffOutputs ==
    { [len |-> 0, blank |-> TRUE, body |-> NoDiff],
      [len |-> 1, blank |-> TRUE, body |-> NoDiff],
      [len |-> 2000, blank |-> FALSE,
       body |-> << Run(Hdr(File("src/auth.ts", 1)), 1), Run(Add(AuthText), 80) >>],
      [len |-> MaxInputBytes, blank |-> FALSE,
       body |-> << Run(Hdr(File("yarn.lock", 1)), 1), Run(Add(PlainText), 80) >>],
      [len |-> MaxInputBytes + 1, blank |-> FALSE,
       body |-> << Run(Hdr(SrcFile), 1), Run(Add(PlainText), 80) >>],
      [len |-> 20000, blank |-> FALSE,
       body |-> << HeaderRun("out.log", ManyLogFiles), Run(Add(PlainText), 1) >>] }

NoOutput == [len |-> 0, blank |-> TRUE, body |-> NoDiff]

\* the text of a result: a document, whether truncatePRContentForMCP has
\* shortened it, and its length
NoText == [doc |-> EmptyDocument, cut |-> FALSE, len |-> 0]

\* raised: the message of the first error thrown, message: the one that
\* reaches the caller
NoResponse ==
    [kind |-> "pending", code |-> "", message |-> "", wrapped |-> FALSE, text |-> NoText,
     raised |-> ""]

\* index.ts 687-709: the response message: file name, location, confidence,
\* diff size, branches, change type and the files flagged for review
StatusMessage(title) == [kind |-> "status message", title |-> title]

\* throw new McpError(code, message) outside the try of 477
Thrown(code, message) ==
    [kind |-> "error", code |-> code, message |-> message, wrapped |-> FALSE,
     text |-> NoText, raised |-> message]

\* index.ts 722-732: whatever is thrown inside the try leaves as InternalError
Wrapped(message) ==
    [kind |-> "error", code |-> "InternalError", message |-> message, wrapped |-> TRUE,
     text |-> NoText, raised |-> message]

Fail(message) ==
    /\ hResponse' = Wrapped(message)
    /\ hPc' = "done"

\* index.ts 581-594 and 606-620: the error thrown inside the inner try is
\* caught by the catch of that try, which throws its own message
FailInsideTry(guidance, message) ==
    /\ hResponse' = [Wrapped(message) EXCEPT !.raised = guidance]
    /\ hPc' = "done"

\* index.ts 453 and 735-738
HandleRequest ==
    /\ hPc = "entry"
    /\ IF hArgs.name = "generate_ai_pr"
       THEN hPc' = "validate" /\ UNCHANGED hResponse
       ELSE hPc' = "done" /\ hResponse' = Thrown("MethodNotFound", "Unknown method")
    /\ UNCHANGED <<hArgs, featureBranch, mainBranch, hDiff, hAnalysis, prdContent, hFile>>
    /\ UNCHANGED gitCommands
    /\ UNCHANGED notHandlerVars

\* index.ts 463-473: validatePRParams throws, and the handler throws it on
ValidateParams ==
    /\ hPc = "validate"
    /\ IF hArgs.valid
       THEN hPc' = "dir" /\ UNCHANGED hResponse
       ELSE hPc' = "done" /\ hResponse' = Thrown("InvalidParams", "Invalid parameters")
    /\ UNCHANGED <<hArgs, featureBranch, mainBranch, hDiff, hAnalysis, prdContent, hFile>>
    /\ UNCHANGED gitCommands
    /\ UNCHANGED notHandlerVars

\* index.ts 481-514: URI.parse(rootUri).fsPath and process.chdir
EnterProjectDir ==
    /\ hPc = "dir"
    /\ \E ok \in BOOLEAN :
          IF hArgs.rootUri = "unparsable" THEN Fail("Invalid root URI format")
          ELSE IF ~ok THEN Fail("Cannot access project directory")
          ELSE hPc' = "repo" /\ UNCHANGED hResponse
    /\ UNCHANGED <<hArgs, featureBranch, mainBranch, hDiff, hAnalysis, prdContent, hFile>>
    /\ UNCHANGED gitCommands
    /\ UNCHANGED notHandlerVars

\* index.ts 516-542: git rev-parse --is-inside-work-tree, --abbrev-ref HEAD
ReadBranch ==
    /\ hPc = "repo"
    /\ \E out \in {"not a repository", "no HEAD", "main", "master", "feat"} :
          IF out = "not a repository"
          THEN Fail("Not a git repository") /\ UNCHANGED featureBranch
          ELSE IF out = "no HEAD"
          THEN Fail("Failed to determine current git branch") /\ UNCHANGED featureBranch
          ELSE featureBranch' = out /\ hPc' = "base" /\ UNCHANGED hResponse
    /\ UNCHANGED <<hArgs, mainBranch, hDiff, hAnalysis, prdContent, hFile>>
    /\ UNCHANGED gitCommands
    /\ UNCHANGED notHandlerVars

\* one git command that was run: whether it succeeded and what it printed
Command(cmd, ok, out) == [cmd |-> cmd, ok |-> ok, out |-> out]

\* master is looked for first
BaseBranchMasterFirst(mainExists, masterExists, current) ==
    IF masterExists THEN "master" ELSE IF mainExists THEN "main" ELSE current

\* index.ts 545-561: "main", or "master" when show-ref fails for main, or the
\* current branch when it fails for both
BaseBranch(mainExists, masterExists, current) ==
    IF mainExists THEN "main" ELSE IF masterExists THEN "master" ELSE current

\* index.ts 544-561: git show-ref --verify refs/heads/main and, when that
\* fails, refs/heads/master
FindMainBranch ==
    /\ hPc = "base"
    /\ \E heads \in SUBSET {"main", "master"} :
          /\ featureBranch \in {"main", "master"} => featureBranch \in heads
          /\ mainBranch' = BaseBranch("main" \in heads, "master" \in heads, featureBranch)
          /\ gitCommands' =
                gitCommands
                \o << Command("show-ref main", "main" \in heads, NoOutput) >>
                \o (IF "main" \in heads THEN <<>>
                    ELSE << Command("show-ref master", "master" \in heads, NoOutput) >>)
    /\ hPc' = "diff"
    /\ UNCHANGED <<hArgs, featureBranch, hDiff, hAnalysis, prdContent, hFile, hResponse>>
    /\ UNCHANGED notHandlerVars

\* index.ts 565-595: on the base branch, git diff --staged and, if that is
\* blank, git diff; the catch of 589 also takes the error of 584
ReadWorkingTreeDiff ==
    /\ hPc = "diff"
    /\ featureBranch = mainBranch
    /\ \E stagedOk \in BOOLEAN, unstagedOk \in BOOLEAN,
          staged \in DiffOutputs, unstaged \in DiffOutputs :
          LET first == Command("diff --staged", stagedOk,
                               IF stagedOk THEN staged ELSE NoOutput)
              second == Command("diff", unstagedOk,
                                IF unstagedOk THEN unstaged ELSE NoOutput)
          IN  IF ~stagedOk
              THEN /\ Fail("Failed to get changes")
                   /\ gitCommands' = Append(gitCommands, first)
                   /\ UNCHANGED hDiff
              ELSE IF ~staged.blank
              THEN /\ hDiff' = staged
                   /\ gitCommands' = Append(gitCommands, first)
                   /\ hPc' = "size"
                   /\ UNCHANGED hResponse
              ELSE IF ~unstagedOk
              THEN /\ Fail("Failed to get changes")
                   /\ gitCommands' = gitCommands \o <<first, second>>
                   /\ UNCHANGED hDiff
              ELSE IF unstaged.blank
              THEN /\ FailInsideTry("No changes found to generate PR for",
                                    "Failed to get changes")
                   /\ gitCommands' = gitCommands \o <<first, second>>
                   /\ UNCHANGED hDiff
              ELSE /\ hDiff' = unstaged
                   /\ gitCommands' = gitCommands \o <<first, second>>
                   /\ hPc' = "size"
                   /\ UNCHANGED hResponse
    /\ UNCHANGED <<hArgs, featureBranch, mainBranch, hAnalysis, prdContent, hFile>>
    /\ UNCHANGED notHandlerVars

\* index.ts 596-621: git diff main..feature; the catch of 614 also takes the
\* error of 609
ReadBranchDiff ==
    /\ hPc = "diff"
    /\ featureBranch # mainBranch
    /\ \E execOk \in BOOLEAN, out \in DiffOutputs :
          /\ gitCommands' = Append(gitCommands,
                                   Command("diff base..current", execOk,
                                           IF execOk THEN out ELSE NoOutput))
          /\ IF ~execOk
             THEN Fail("Failed to generate diff between branches") /\ UNCHANGED hDiff
             ELSE IF out.blank
             THEN /\ FailInsideTry("No differences found between branches",
                                   "Failed to generate diff between branches")
                  /\ UNCHANGED hDiff
             ELSE hDiff' = out /\ hPc' = "size" /\ UNCHANGED hResponse
    /\ UNCHANGED <<hArgs, featureBranch, mainBranch, hAnalysis, prdContent, hFile>>
    /\ UNCHANGED notHandlerVars

\* index.ts 625-632
CheckDiffSize ==
    /\ hPc = "size"
    /\ IF hDiff.len > MaxInputBytes
       THEN Fail("Changes are too large for AI analysis")
       ELSE hPc' = "analyse" /\ UNCHANGED hResponse
    /\ UNCHANGED <<hArgs, featureBranch, mainBranch, hDiff, hAnalysis, prdContent, hFile>>
    /\ UNCHANGED gitCommands
    /\ UNCHANGED notHandlerVars

\* index.ts 637-660: requestCursorAIAnalysis without a sampling function, then
\* generatePRFromTemplate with useAI: true
GenerateDocument ==
    /\ hPc = "analyse"
    /\ hAnalysis' = generateFallbackAnalysis("aiAnalysis.ts", hDiff.body)
    /\ prdContent' \in HandlerDocuments(hArgs.title)
    /\ hPc' = "write"
    /\ UNCHANGED <<hArgs, featureBranch, mainBranch, hDiff, hFile, hResponse>>
    /\ UNCHANGED gitCommands
    /\ UNCHANGED notHandlerVars

\* index.ts 665-682
WriteDocument ==
    /\ hPc = "write"
    /\ \E ok \in BOOLEAN :
          IF ok
          THEN hFile' = prdContent /\ hPc' = "respond" /\ UNCHANGED hResponse
          ELSE Fail("Failed to write Cursor AI PR document") /\ UNCHANGED hFile
    /\ UNCHANGED <<hArgs, featureBranch, mainBranch, hDiff, hAnalysis, prdContent>>
    /\ UNCHANGED gitCommands
    /\ UNCHANGED notHandlerVars

\* the literal text of the template of index.ts 687-709, in characters
StatusFixedLen == 327

\* "_Cursor_AI_PR.md".length
FileNameSuffixLen == 16

\* the text before the list of flagged files
FlaggedPrefixLen == 33

\* the text shown when no file is flagged
AllRelevantLen == 44

\* the lengths of the short strings the message embeds
Length ==
    "T" :> 1 @@ "/repo" :> 5 @@ "main" :> 4 @@ "master" :> 6 @@ "feat" :> 4 @@
    "Testing" :> 7 @@ "Docs" :> 4 @@ "Bugfix" :> 6 @@ "Security" :> 8 @@
    "Performance" :> 11 @@ "Style" :> 5 @@ "Feature" :> 7 @@ "Refactor" :> 8

RECURSIVE Digits(_)
\* String(n).length
Digits(n) == IF n < 10 THEN 1 ELSE 1 + Digits(n \div 10)

\* index.ts 481-490: URI.parse(rootUri).fsPath
ProjectDir(rootUri) == "/repo"

RECURSIVE SumPathLengths(_, _)
SumPathLengths(stems, files) ==
    IF stems = {} THEN 0
    ELSE LET st == CHOOSE x \in stems : TRUE IN
         Cardinality({f \in files : f.stem = st}) * PathTable[st].len
             + SumPathLengths(stems \ {st}, files)

\* index.ts 701-707: potentialUnnecessaryFiles.join(", ") after its label, or
\* the all-relevant text
FlaggedTextLength(files) ==
    IF files = {} THEN AllRelevantLen
    ELSE FlaggedPrefixLen + SumPathLengths({f.stem : f \in files}, files)
             + 2 * (Cardinality(files) - 1)

\* index.ts 687-709: responseMessage.length
ResponseLength ==
    StatusFixedLen
    + (Length[hArgs.title] + FileNameSuffixLen)
    + Length[ProjectDir(hArgs.rootUri)]
    + Digits(hAnalysis.confidence)
    + Digits(hDiff.len)
    + Length[mainBranch] + Length[featureBranch]
    + Length[Capitalize[hAnalysis.changeType]]
    + FlaggedTextLength(hAnalysis.potentialUnnecessaryFiles)

\* validation.ts 54-98 on a text without a "## " line and without a priority
\* heading: as it is when it fits, and otherwise sections[0] + "\n", which is
\* the whole text and one character, without a notice
GovernedLength(n) == IF n <= MAX_LENGTH THEN n ELSE n + 1

\* index.ts 686-721: the text returned is truncatePRContentForMCP of the
\* response message
Respond ==
    /\ hPc = "respond"
    /\ hResponse' = [kind |-> "ok", code |-> "", wrapped |-> FALSE,
                     message |-> "Cursor AI PR Generation Complete", raised |-> "",
                     text |-> [doc |-> StatusMessage(hArgs.title), cut |-> FALSE,
                               len |-> GovernedLength(ResponseLength)]]
    /\ hPc' = "done"
    /\ UNCHANGED <<hArgs, featureBranch, mainBranch, hDiff, hAnalysis, prdContent, hFile>>
    /\ UNCHANGED gitCommands
    /\ UNCHANGED notHandlerVars

HandlerIdle ==
    /\ hArgs = [name |-> "", valid |-> FALSE, rootUri |-> "", title |-> ""]
    /\ featureBranch = ""
    /\ mainBranch = ""
    /\ hDiff = NoOutput
    /\ hAnalysis = InitialResult
    /\ prdContent = EmptyDocument
    /\ hFile = EmptyDocument
    /\ hResponse = NoResponse
    /\ gitCommands = <<>>
    /\ hPc = "idle"

\* a request: the tool name, arguments that validatePRParams accepts or not,
\* a root URI that URI.parse accepts or not
HandlerInit ==
    /\ hArgs \in [name : {"generate_ai_pr", "other"}, valid : BOOLEAN,
                  rootUri : {"file:///repo", "unparsable"}, title : {"T"}]
    /\ featureBranch = ""
    /\ mainBranch = "main"
    /\ hDiff = NoOutput
    /\ hAnalysis = InitialResult
    /\ prdContent = EmptyDocument
    /\ hFile = EmptyDocument
    /\ hResponse = NoResponse
    /\ gitCommands = <<>>
    /\ hPc = "entry"

HandlerNext ==
    \/ HandleRequest
    \/ ValidateParams
    \/ EnterProjectDir
    \/ ReadBranch
    \/ FindMainBranch
    \/ ReadWorkingTreeDiff
    \/ ReadBranchDiff
    \/ CheckDiffSize
    \/ GenerateDocument
    \/ WriteDocument
    \/ Respond

----------------------------------------------------------------------------
(* Concurrent invocations of the generate_ai_pr handler in one process.    *)
(* The handler is an async function: between two awaits of one invocation  *)
(* the steps of another may run.  debugLog appends to the relative path    *)
(* "mcp-debug.log", which the process resolves against its working         *)
(* directory; git runs with cwd: projectDir and the PR file is written to  *)
(* projectDir/<name>.                                                      *)

MaxInvocations == 2

Invocations == 1..MaxInvocations

ProjectDirs == {"/a", "/b"}

\* the working directory the server was started in
StartDir == "/srv"

\* index.ts 27-36: appendFile("mcp-debug.log", ...) lands in the working
\* directory of the process
debugLog(i, at) == logLines' = logLines \cup {[inv |-> i, at |-> at, dir |-> cwd]}

\* index.ts 460-478: the log lines before the project directory is entered
LogStart(i) ==
    /\ invPc[i] = "start"
    /\ debugLog(i, "before chdir")
    /\ invPc' = [invPc EXCEPT ![i] = "chdir"]
    /\ UNCHANGED <<cwd, projectDirOf, documents>>
    /\ UNCHANGED notConcVars

\* index.ts 505-507: process.chdir(projectDir), then the first log line
ChangeDirectory(i) ==
    /\ invPc[i] = "chdir"
    /\ cwd' = projectDirOf[i]
    /\ logLines' = logLines \cup {[inv |-> i, at |-> "chdir", dir |-> projectDirOf[i]]}
    /\ invPc' = [invPc EXCEPT ![i] = "git"]
    /\ UNCHANGED <<projectDirOf, documents>>
    /\ UNCHANGED notConcVars

\* index.ts 516-623: the git commands, awaited, each with cwd: projectDir, and
\* the log lines after them
LogAfterGit(i) ==
    /\ invPc[i] = "git"
    /\ debugLog(i, "after git")
    /\ invPc' = [invPc EXCEPT ![i] = "write"]
    /\ UNCHANGED <<cwd, projectDirOf, documents>>
    /\ UNCHANGED notConcVars

\* index.ts 665-684: writeFile(projectDir/<name>), awaited, and the log line
\* after it
WriteAndLog(i) ==
    /\ invPc[i] = "write"
    /\ documents' = documents \cup {[inv |-> i, dir |-> projectDirOf[i]]}
    /\ debugLog(i, "after write")
    /\ invPc' = [invPc EXCEPT ![i] = "done"]
    /\ UNCHANGED <<cwd, projectDirOf>>
    /\ UNCHANGED notConcVars

ConcIdle ==
    /\ cwd = StartDir
    /\ projectDirOf = [i \in Invocations |-> "/a"]
    /\ invPc = [i \in Invocations |-> "idle"]
    /\ logLines = {}
    /\ documents = {}

\* the requests have arrived, each for a project directory
ConcInit ==
    /\ cwd = StartDir
    /\ projectDirOf \in [Invocations -> ProjectDirs]
    /\ invPc = [i \in Invocations |-> "start"]
    /\ logLines = {}
    /\ documents = {}

ConcNext ==
    \E i \in Invocations :
        \/ LogStart(i)
        \/ ChangeDirectory(i)
        \/ LogAfterGit(i)
        \/ WriteAndLog(i)

----------------------------------------------------------------------------
(* Successive calls of processDiffForPreview in one server process.        *)

MaxCalls == 3

\* a diff that leaves a file, a cursor and counters behind
OtherDiff == << Run(Hdr(SrcFile), 1), Run(Add(FnText), 1), Run(Del(PlainText), 1) >>

CallDiffs ==
    SeqsUpTo({Run(l, 1) : l \in LineAlphabet}, MaxDiffLines - 1) \cup {OtherDiff}

\* the diffs of the calls so far
DiffsSoFar == {diff} \cup {calls[i].diff : i \in 1..Len(calls)}

\* the locals of the earlier call are still there when the next one starts
CallAgainOnOldLocals ==
    /\ parsePc = "done"
    /\ Len(calls) < MaxCalls - 1
    /\ calls' = Append(calls, [diff |-> diff, preview |-> preview])
    /\ diff' \in DiffsSoFar \cup {OtherDiff}
    /\ lineNo' = 0
    /\ preview' = NoPreview
    /\ logicSummary' = [note |-> "", lines |-> <<>>]
    /\ parsePc' = "entry"
    /\ UNCHANGED <<modifiedFiles, currentFile, totalLinesAdded, totalLinesRemoved,
                   functionsModified, classesModified, interfacesModified>>
    /\ UNCHANGED <<truncVars, analysisVars, genVars, handlerVars, concVars, validateVars>>

\* processDiffForPreview.ts 4-83: the function is called again; the Map, the
\* cursor and the counters are locals declared in the call, and the module
\* has no variable of its own
CallAgain ==
    /\ parsePc = "done"
    /\ Len(calls) < MaxCalls - 1
    /\ calls' = Append(calls, [diff |-> diff, preview |-> preview])
    /\ diff' \in DiffsSoFar \cup {OtherDiff}
    /\ lineNo' = 0
    /\ modifiedFiles' = <<>>
    /\ currentFile' = NoFile
    /\ totalLinesAdded' = 0
    /\ totalLinesRemoved' = 0
    /\ functionsModified' = 0
    /\ classesModified' = 0
    /\ interfacesModified' = 0
    /\ preview' = NoPreview
    /\ logicSummary' = [note |-> "", lines |-> <<>>]
    /\ parsePc' = "entry"
    /\ UNCHANGED <<truncVars, analysisVars, genVars, handlerVars, concVars, validateVars>>

CallsIdle == calls = <<>>

CallsInit ==
    /\ ParseInit
    /\ diff \in CallDiffs
    /\ calls = <<>>

CallsNext ==
    \/ ParseNext
    \/ CallAgain

----------------------------------------------------------------------------
(* validatePRParams: the checks on the arguments of generate_ai_pr.        *)

\* params.title.length > 100
MaxTitleLength == 100

\* params.description.length > 50000
MaxDescriptionLength == 50000

\* a property of the arguments: absent, a string (blank or not, of a
\* length), or a number
Undefined == [type |-> "undefined", blank |-> TRUE, len |-> 0]

Str(blank, n) == [type |-> "string", blank |-> blank, len |-> n]

Num == [type |-> "number", blank |-> FALSE, len |-> 0]

TitleValues ==
    { Undefined, Num, Str(TRUE, 0), Str(TRUE, MaxTitleLength + 1), Str(FALSE, 5),
      Str(FALSE, MaxTitleLength), Str(FALSE, MaxTitleLength + 1) }

DescriptionValues ==
    { Undefined, Num, Str(TRUE, 0), Str(TRUE, MaxDescriptionLength + 1), Str(FALSE, 5),
      Str(FALSE, MaxDescriptionLength), Str(FALSE, MaxDescriptionLength + 1) }

RootUriValues == { Undefined, Num, Str(TRUE, 0), Str(TRUE, 3), Str(FALSE, 5) }

\* request.params.arguments: an object, or nothing at all
Arguments ==
    [given : {TRUE}, title : TitleValues, description : DescriptionValues,
     rootUri : RootUriValues]
    \cup {[given |-> FALSE, title |-> Undefined, description |-> Undefined,
            rootUri |-> Undefined]}

NothingThrown == [error |-> "none", message |-> ""]

InvalidParams(message) == [error |-> "InvalidParams", message |-> message]

TypeError(message) == [error |-> "TypeError", message |-> message]

\* !v?.trim(): what the test of one property does
\*   "raises" when v has no trim method, "empty" when v is absent or blank
TrimTest(v) ==
    IF v.type = "undefined" THEN "empty"
    ELSE IF v.type = "string" THEN (IF v.blank THEN "empty" ELSE "filled")
    ELSE "raises"

\* one test of lines 9-28: throw when empty, go on to the next test otherwise
EmptinessCheck(at, v, message, next) ==
    /\ validatePc = at
    /\ IF ~params.given
       THEN /\ thrown' = TypeError("Cannot read properties of undefined")
            /\ validatePc' = "done"
       ELSE IF TrimTest(v) = "raises"
       THEN /\ thrown' = TypeError("trim is not a function")
            /\ validatePc' = "done"
       ELSE IF TrimTest(v) = "empty"
       THEN /\ thrown' = InvalidParams(message)
            /\ validatePc' = "done"
       ELSE /\ validatePc' = next
            /\ UNCHANGED thrown
    /\ UNCHANGED params
    /\ UNCHANGED <<truncVars, parseVars, analysisVars, genVars, handlerVars, concVars,
                   callsVars>>

\* validation.ts 9-14
CheckTitle == EmptinessCheck("title", params.title, "PR title cannot be empty", "description")

\* validation.ts 16-21
CheckDescription ==
    EmptinessCheck("description", params.description, "PR description cannot be empty",
                   "rootUri")

\* validation.ts 23-28
CheckRootUri ==
    EmptinessCheck("rootUri", params.rootUri, "Root URI is required", "title length")

\* validation.ts 30-35
CheckTitleLength ==
    /\ validatePc = "title length"
    /\ IF params.title.len > MaxTitleLength
       THEN /\ thrown' = InvalidParams("PR title is too long")
            /\ validatePc' = "done"
       ELSE /\ validatePc' = "description length"
            /\ UNCHANGED thrown
    /\ UNCHANGED params
    /\ UNCHANGED <<truncVars, parseVars, analysisVars, genVars, handlerVars, concVars,
                   callsVars>>

\* validation.ts 37-43: the last test, and the return
CheckDescriptionLength ==
    /\ validatePc = "description length"
    /\ IF params.description.len > MaxDescriptionLength
       THEN thrown' = InvalidParams("PR description is extremely long")
       ELSE UNCHANGED thrown
    /\ validatePc' = "done"
    /\ UNCHANGED params
    /\ UNCHANGED <<truncVars, parseVars, analysisVars, genVars, handlerVars, concVars,
                   callsVars>>

ValidateIdle ==
    /\ params = [given |-> FALSE, title |-> Undefined, description |-> Undefined,
                 rootUri |-> Undefined]
    /\ thrown = NothingThrown
    /\ validatePc = "idle"

ValidateInit ==
    /\ params \in Arguments
    /\ thrown = NothingThrown
    /\ validatePc = "title"

ValidateNext ==
    \/ CheckTitle
    \/ CheckDescription
    \/ CheckRootUri
    \/ CheckTitleLength
    \/ CheckDescriptionLength

----------------------------------------------------------------------------
(* Specifications.                                                         *)

InitTrunc ==
    TruncInit /\ ParseIdle /\ AnalysisIdle /\ GenIdle
    /\ HandlerIdle /\ ConcIdle /\ CallsIdle /\ ValidateIdle

SpecTrunc == InitTrunc /\ [][TruncNext]_vars

InitParse ==
    ParseInit /\ TruncIdle /\ AnalysisIdle /\ GenIdle
    /\ HandlerIdle /\ ConcIdle /\ CallsIdle /\ ValidateIdle

SpecParse == InitParse /\ [][ParseNext]_vars

InitAnalysis ==
    AnalysisInit /\ TruncIdle /\ ParseIdle /\ GenIdle
    /\ HandlerIdle /\ ConcIdle /\ CallsIdle /\ ValidateIdle

SpecAnalysis == InitAnalysis /\ [][AnalysisNext]_vars

InitGen ==
    GenInit /\ TruncIdle /\ ParseIdle /\ AnalysisIdle
    /\ HandlerIdle /\ ConcIdle /\ CallsIdle /\ ValidateIdle

SpecGen == InitGen /\ [][GenNext]_vars

InitHandler ==
    HandlerInit /\ TruncIdle /\ ParseIdle /\ AnalysisIdle
    /\ GenIdle /\ ConcIdle /\ CallsIdle /\ ValidateIdle

SpecHandler == InitHandler /\ [][HandlerNext]_vars

InitConc ==
    ConcInit /\ TruncIdle /\ ParseIdle /\ AnalysisIdle
    /\ GenIdle /\ HandlerIdle /\ CallsIdle /\ ValidateIdle

SpecConc == InitConc /\ [][ConcNext]_vars

InitCalls ==
    CallsInit /\ TruncIdle /\ AnalysisIdle /\ GenIdle /\ HandlerIdle /\ ConcIdle
    /\ ValidateIdle

InitValidate ==
    ValidateInit /\ TruncIdle /\ ParseIdle /\ AnalysisIdle /\ GenIdle
    /\ HandlerIdle /\ ConcIdle /\ CallsIdle

SpecValidate == InitValidate /\ [][ValidateNext]_vars

SpecCalls == InitCalls /\ [][CallsNext]_vars

\* the request to the client settles, and the code after it runs to its end
FairSpecAnalysis == SpecAnalysis /\ WF_vars(AnalysisNext)

\* the loop is synchronous code: it always takes its next step
FairSpecParse == SpecParse /\ WF_vars(ParseNext)

----------------------------------------------------------------------------
(* What the claims compare the parser with: the diff read directly.        *)

\* index of the last file header before line i that the header pattern
\* matches, 0 if none
HeaderBefore(d, i) ==
    LET hs == {j \in 1..(i - 1) : LineAt(d, j).k = "hdr"} IN
    IF hs = {} THEN 0 ELSE CHOOSE j \in hs : \A h \in hs : h <= j

\* line i is a non-empty addition (k = "add") or deletion (k = "del") that
\* follows a file header
IsChangeLine(d, i, k) ==
    /\ LineAt(d, i).k = k
    /\ Trim(LineAt(d, i).text) # ""
    /\ HeaderBefore(d, i) # 0

ChangeLineCount(d, k) == Cardinality({i \in 1..DiffLen(d) : IsChangeLine(d, i, k)})

\* the non-empty additions or deletions of file f, in diff order
ChangeLinesOf(d, f, k) ==
    LET Mine(i) == IsChangeLine(d, i, k) /\ LineAt(d, HeaderBefore(d, i)).file = f
        idx == SelectSeq([i \in 1..DiffLen(d) |-> i], Mine)
    IN  [n \in 1..Len(idx) |-> Trim(LineAt(d, idx[n]).text)]

\* the files of the diff in the order of the first occurrence of their header
FirstOccurrenceOrder(d) ==
    LET First(i) ==
            /\ LineAt(d, i).k = "hdr"
            /\ \A j \in 1..(i - 1) :
                  LineAt(d, j).k = "hdr" => LineAt(d, j).file # LineAt(d, i).file
        idx == SelectSeq([i \in 1..DiffLen(d) |-> i], First)
    IN  [n \in 1..Len(idx) |-> LineAt(d, idx[n]).file]

ParseFinished == parsePc \in {"fallback", "done"}

\* C1: for every input document, the string truncatePRContentForMCP returns
\* is at most MAX_LENGTH (4800) characters long.
C1_ReturnedWithinCeiling ==
    truncPc = "done" => ResultLength(result) <= MAX_LENGTH

\* C3: after parsing, technicalMetrics.linesAdded and linesRemoved equal the
\* numbers of non-empty addition and deletion lines that follow a file header
\* in the whole diff, the lines dropped at the per-file cap included.
C3_GlobalCountersCountEveryLine ==
    ParseFinished =>
        /\ preview.technicalMetrics.linesAdded = ChangeLineCount(diff, "add")
        /\ preview.technicalMetrics.linesRemoved = ChangeLineCount(diff, "del")

\* C4: in every state each file's added and removed sequences hold at most
\* MaxLinesPerFile (1000) lines; after parsing each file holds the first 1000
\* of its non-empty added (removed) lines in diff order, exactly 1000 when the
\* diff has more, and the parse ends with the regular result.
C4_PerFileCap ==
    /\ \A i \in 1..Len(modifiedFiles) :
          /\ Len(modifiedFiles[i].added) <= MaxLinesPerFile
          /\ Len(modifiedFiles[i].removed) <= MaxLinesPerFile
    /\ ParseFinished =>
          \A i \in 1..Len(modifiedFiles) :
              LET f == modifiedFiles[i].file
                  adds == ChangeLinesOf(diff, f, "add")
                  dels == ChangeLinesOf(diff, f, "del")
              IN  /\ modifiedFiles[i].added = FirstN(adds, MaxLinesPerFile)
                  /\ modifiedFiles[i].removed = FirstN(dels, MaxLinesPerFile)
                  /\ Len(adds) > MaxLinesPerFile =>
                        Len(modifiedFiles[i].added) = MaxLinesPerFile
                  /\ preview.fileAnalysis[i].linesAdded = Len(modifiedFiles[i].added)
    /\ (ParseFinished /\ ~IsBlankDiff(diff)) => preview.changesSummary = "stats"

\* C4 witness: a parse has finished on a diff in which a file has more than
\* 1000 non-empty added lines, and its record holds 1000
C4_Witness ==
    /\ parsePc = "done"
    /\ \E i \in 1..Len(modifiedFiles) :
          /\ Len(ChangeLinesOf(diff, modifiedFiles[i].file, "add")) > MaxLinesPerFile
          /\ Len(modifiedFiles[i].added) = MaxLinesPerFile

\* C5: parsing terminates, and the files of the result (the changed-files
\* list, cut at 100 entries, and the fileAnalysis array) are in the order of
\* the first occurrence of their headers; a repeated header neither
\* duplicates nor moves a file.
C5_FirstOccurrenceOrder ==
    /\ <>(parsePc = "done")
    /\ [](ParseFinished =>
            LET order == FirstOccurrenceOrder(diff) IN
            /\ [i \in 1..Len(preview.fileAnalysis) |-> preview.fileAnalysis[i].file] = order
            /\ preview.files = FirstN(order, MaxFilesListed))

\* C5 witness: a finished parse of a diff in which the header of the first
\* file comes again after the header of a second file
C5_Witness ==
    /\ parsePc = "done"
    /\ Len(preview.files) = 2
    /\ \E i, j, k \in 1..DiffLen(diff) :
          /\ i < j /\ j < k
          /\ LineAt(diff, i) = Hdr(preview.files[1])
          /\ LineAt(diff, j) = Hdr(preview.files[2])
          /\ LineAt(diff, k) = Hdr(preview.files[1])

\* line i lies in a binary section: a binary marker precedes it with no
\* "diff --git" line in between
InBinarySection(d, i) ==
    \E j \in 1..(i - 1) :
        /\ LineAt(d, j).k = "bin"
        /\ \A h \in (j + 1)..(i - 1) : LineAt(d, h).k \notin {"hdr", "badhdr"}

\* C6: once a binary-file marker is read, no following line is recorded as an
\* addition or deletion of any file, nor counted, until the next "diff --git"
\* header is read.
C6_BinarySectionSkipped ==
    [][ (parsePc = "lines" /\ lineNo <= DiffLen(diff) /\ InBinarySection(diff, lineNo))
          => /\ totalLinesAdded' = totalLinesAdded
             /\ totalLinesRemoved' = totalLinesRemoved
             /\ \A i \in 1..Len(modifiedFiles) :
                   /\ modifiedFiles'[i].added = modifiedFiles[i].added
                   /\ modifiedFiles'[i].removed = modifiedFiles[i].removed ]_vars

\* an added line the composer's own filter names a credential
IsCredentialLike(t) ==
    \/ Includes(t, "API_KEY") \/ Includes(t, "SECRET")
    \/ Includes(t, "PASSWORD") \/ Includes(t, "TOKEN")

\* C7: no credential-like added line appears in an example snippet: neither in
\* the example code blocks of the narrative nor in the excerpt of the fallback
\* document.
C7_NoCredentialInSnippets ==
    parsePc = "done" =>
        /\ \A i \in 1..Len(preview.mainLogicChanges) :
              \A j \in 1..Len(preview.mainLogicChanges[i].examples) :
                  ~IsCredentialLike(preview.mainLogicChanges[i].examples[j])
        /\ \A i \in 1..Len(logicSummary.lines) :
              logicSummary.lines[i].k = "add" =>
                  ~IsCredentialLike(logicSummary.lines[i].text)

\* the precedence of the claim C9, on the markers the classifiers look for
ClaimedChangeType(d) ==
    IF DiffLowerIncludes(d, "test") \/ DiffLowerIncludes(d, "spec") THEN "testing"
    ELSE IF \/ DiffLowerIncludes(d, "readme") \/ DiffLowerIncludes(d, ".md")
            \/ DiffLowerIncludes(d, "doc") THEN "docs"
    ELSE IF \/ DiffLowerIncludes(d, "fix") \/ DiffLowerIncludes(d, "bug")
            \/ DiffLowerIncludes(d, "error") THEN "bugfix"
    ELSE IF \/ DiffLowerIncludes(d, "security") \/ DiffLowerIncludes(d, "auth")
            \/ DiffLowerIncludes(d, "permission") THEN "security"
    ELSE IF \/ DiffLowerIncludes(d, "performance") \/ DiffLowerIncludes(d, "optimize")
            \/ DiffLowerIncludes(d, "cache") THEN "performance"
    ELSE IF \/ DiffLowerIncludes(d, "style") \/ DiffLowerIncludes(d, "css")
            \/ DiffLowerIncludes(d, "format") THEN "style"
    ELSE IF AddedLineCount(d) > RemovedLineCount(d) * 2
         THEN "feature"
    ELSE "refactor"

\* C9: the change type the rule-based classifier returns is one label of the
\* enumeration, chosen by the precedence testing, docs, bugfix, security,
\* performance, style, feature (added > 2 x removed), refactor; so 80 added
\* lines with auth, login and password in a .ts file are "security".
C9_ClassifierPrecedence ==
    (anPc = "done" /\ returned # <<>> /\ returned[1].fn = "generateFallbackAnalysis") =>
        /\ anResult.changeType \in DOMAIN Capitalize
        /\ anResult.changeType = ClaimedChangeType(anDiff)

\* C10: every AIAnalysisResult a function of the analysis returns (rule-based
\* fallback, parser, legacy parser, its error fallback, Cursor AI path) has a
\* confidence of 0.4, 0.6, 0.7 or 0.9.
C10_ConfidenceInFixedSet ==
    \A i \in 1..Len(returned) : returned[i].confidence \in {40, 60, 70, 90}

\* C2: generatePRFromTemplate never rejects and resolves to a non-empty
\* document, whatever the input, with options.useAI unset and when the
\* AI-powered stage fails included.
C2_AlwaysADocument ==
    genPc = "resolved" => genDoc # EmptyDocument

\* C8: a diff larger than the 5 MB limit does not make the request fail: the
\* pipeline runs on it and the caller gets a document.
C8_LargeDiffNotFatal ==
    (hPc = "done" /\ hDiff.len > MaxInputBytes) =>
        /\ hResponse.kind = "ok"
        /\ hFile # EmptyDocument

\* a path the narrative is to leave out: a dependency lock file, a log, an
\* environment file, a vendored module, a build output
IsExcludedPath(f) ==
    \/ PathIncludes(f, "package-lock.json") \/ PathEndsWith(f, ".lock")
    \/ PathEndsWith(f, ".log") \/ PathEndsWith(f, ".env")
    \/ PathIncludes(f, "node_modules")
    \/ PathIncludes(f, "dist/") \/ PathIncludes(f, "build/")

\* the per-file sections of a narrative that are about file f
SectionsOf(narrative, f) ==
    SelectSeq(narrative, LAMBDA s : s.kind = "section" /\ s.file = f)

\* C11: a file under an excluded path (package-lock.json, a log, an env file,
\* a build output) gets no per-file section in the narrative, its changed
\* lines are counted in the aggregate totals, and no pattern tagger is
\* evaluated on its lines (they do not raise functionsModified).
C11_ExcludedPathsCountedNotNarrated ==
    ParseFinished =>
        LET excluded == {i \in 1..Len(modifiedFiles) : IsExcludedPath(modifiedFiles[i].file)}
            others == (1..Len(modifiedFiles)) \ excluded
            Tagged(i) == Len(SelectSeq(modifiedFiles[i].added, IsFunctionLine))
                         + Len(SelectSeq(modifiedFiles[i].removed, IsFunctionLine))
        IN  /\ \A i \in excluded :
                  /\ SectionsOf(preview.mainLogicChanges, modifiedFiles[i].file) = <<>>
                  /\ preview.technicalMetrics.linesAdded >=
                        Len(ChangeLinesOf(diff, modifiedFiles[i].file, "add"))
            /\ preview.technicalMetrics.functionsModified <=
                  SumSeq([i \in 1..Len(modifiedFiles) |-> IF i \in others THEN Tagged(i) ELSE 0])

\* C12: the narrative holds exactly one per-file section for each file of the
\* parse result that is not under an excluded path, and none for a file under
\* an excluded path.
C12_OneSectionPerNarratedFile ==
    ParseFinished =>
        \A i \in 1..Len(modifiedFiles) :
            Len(SectionsOf(preview.mainLogicChanges, modifiedFiles[i].file)) =
                IF IsExcludedPath(modifiedFiles[i].file) THEN 0 ELSE 1

\* the entry after which the cap on processed files is reached: the
\* MaxFilesToProcess-th file that is not skipped, 0 if there is none
CapIndex(m) ==
    LET Processed(i) == Cardinality({j \in 1..i : ~IsSkippedPath(m[j].file)})
        at == {i \in 1..Len(m) : Processed(i) = MaxFilesToProcess}
    IN  IF at = {} THEN 0 ELSE CHOOSE i \in at : \A j \in at : i <= j

\* C13: the narrative holds at most 20 per-file sections; when files remain
\* after the cap is reached there is exactly one "N more files" notice, it is
\* the last entry, and N is the number of files not processed at that point;
\* otherwise there is no notice.
C13_NarrativeCap ==
    ParseFinished =>
        LET narrative == preview.mainLogicChanges
            notices == {i \in 1..Len(narrative) : narrative[i].kind = "more"}
            sections == {i \in 1..Len(narrative) : narrative[i].kind = "section"}
            cap == CapIndex(modifiedFiles)
        IN  /\ Cardinality(sections) <= MaxFilesToProcess
            /\ IF cap # 0 /\ cap < Len(modifiedFiles)
               THEN /\ notices = {Len(narrative)}
                    /\ narrative[Len(narrative)].n = Len(modifiedFiles) - MaxFilesToProcess
               ELSE notices = {}

\* C13 witness: a parse of more than 20 narrated files has finished with 20
\* sections and the notice
C13_Witness ==
    /\ parsePc = "done"
    /\ Len(preview.mainLogicChanges) = MaxFilesToProcess + 1
    /\ preview.mainLogicChanges[MaxFilesToProcess + 1].kind = "more"
    /\ \A i \in 1..MaxFilesToProcess : preview.mainLogicChanges[i].kind = "section"

\* C14: whatever the interleaving of concurrent invocations, each one writes
\* what and where it writes when it runs alone: its log lines go to the
\* start directory before it enters its project directory and to its own
\* project directory afterwards, its PR file to its own project directory.
C14_InvocationsIsolated ==
    /\ \A l \in logLines :
          l.dir = IF l.at = "before chdir" THEN StartDir ELSE projectDirOf[l.inv]
    /\ \A d \in documents : d.dir = projectDirOf[d.inv]

\* C15: in a successful generate_ai_pr call the PR file holds the rendered
\* document, not shortened, and the text returned to the client is what
\* truncatePRContentForMCP makes of that same rendered document.
C15_FileFullResponseGoverned ==
    hResponse.kind = "ok" =>
        /\ hFile = prdContent
        /\ hResponse.text.doc = prdContent

\* C16: truncatePRContentForMCP returns for every string input: when a
\* statement of its try block raises, the call still ends, and what it returns
\* is the first MAX_LENGTH - 100 characters of the input followed by the
\* length-constraints marker.
C16_RaiseYieldsSimpleTruncation ==
    [][truncPc = "catch" =>
          /\ truncPc' = "done"
          /\ result' = << Piece("prefix", 0, MAX_LENGTH - 100),
                          Piece("fallback marker", 0, FallbackMarkerLen) >>]_vars

C16_Witness ==
    /\ truncPc = "done"
    /\ Len(result) = 2
    /\ result[1].kind = "prefix"
    /\ ContentLength(prContent) > MAX_LENGTH

\* the section is not in the result in full
NotWhollyReturned(s) ==
    /\ result[1].kind # "whole"
    /\ \A i \in 1..Len(result) : ~(result[i].kind = "section" /\ result[i].src = s)

\* C17: in a call that ends without a raise, a section that was cut is
\* followed by the content-truncated marker and by no other section, cut or
\* whole; and when some section of the input is missing from the result or
\* cut, the result ends with the final truncation notice.
C17_CutIsLastAndNoticeFollows ==
    (truncPc = "done" /\ result[1].kind # "prefix") =>
        /\ \A i \in 1..Len(result) :
              result[i].kind = "cut" =>
                  /\ i < Len(result)
                  /\ result[i + 1].kind = "marker"
                  /\ \A j \in (i + 1)..Len(result) :
                        result[j].kind \notin {"section", "cut"}
        /\ (\E s \in 1..Len(prContent) : NotWhollyReturned(s)) =>
              result[Len(result)].kind = "notice"

C17_Witness ==
    /\ truncPc = "done"
    /\ \E i \in 1..Len(result) : result[i].kind = "cut"
    /\ \E s \in 1..Len(prContent) :
          \A i \in 1..Len(result) : result[i].src # s
    /\ result[Len(result)].kind = "notice"

RECURSIVE WithoutLine(_, _)
\* the diff without its i-th line
WithoutLine(d, i) ==
    IF i <= d[1].n
    THEN IF d[1].n = 1 THEN Tail(d) ELSE <<[d[1] EXCEPT !.n = @ - 1]>> \o Tail(d)
    ELSE <<d[1]>> \o WithoutLine(Tail(d), i - d[1].n)

\* C18: a line that starts with "diff --git" and does not match the header
\* pattern changes nothing: the value returned for the diff is the value
\* returned for the same diff without that line.
C18_MalformedHeaderIsAbsent ==
    parsePc = "done" =>
        \A i \in 1..DiffLen(diff) :
            LineAt(diff, i).k = "badhdr" =>
                preview = processDiffForPreview(WithoutLine(diff, i))

\* every call so far, the current one once it has returned
ReturnedCalls ==
    IF parsePc = "done" THEN Append(calls, [diff |-> diff, preview |-> preview])
    ELSE calls

\* C19: two calls of processDiffForPreview on the same diff return equal
\* results, whatever diffs the calls before or between them were given.
C19_SameDiffSameResult ==
    \A i, j \in 1..Len(ReturnedCalls) :
        ReturnedCalls[i].diff = ReturnedCalls[j].diff =>
            ReturnedCalls[i].preview = ReturnedCalls[j].preview

\* the same diff parsed twice with another diff, one that records a file,
\* parsed in between
C19_Witness ==
    /\ parsePc = "done"
    /\ Len(calls) = 2
    /\ calls[1].diff = diff
    /\ calls[2].diff # diff
    /\ calls[2].preview.technicalMetrics.totalFiles > 0
    /\ preview.technicalMetrics.linesAdded > 0

\* the number of lines of kind k ("add" or "del") of file f in the diff
DiffLineCount(d, f, k) ==
    Cardinality({ i \in 1..DiffLen(d) :
                    /\ LineAt(d, i).k = k
                    /\ HeaderBefore(d, i) # 0
                    /\ LineAt(d, HeaderBefore(d, i)).file = f })

\* C20: for every file record, changeType is Addition when the file's added
\* lines in the diff are more than twice its removed lines, Deletion when the
\* removed are more than twice the added, otherwise Modification; complexity
\* is High when added plus removed exceed 50, Medium when they exceed 20,
\* otherwise Low.
C20_FileAnalysisFromDiffCounts ==
    parsePc = "done" =>
        \A i \in 1..Len(preview.fileAnalysis) :
            LET linesAdded == DiffLineCount(diff, preview.fileAnalysis[i].file, "add")
                linesRemoved == DiffLineCount(diff, preview.fileAnalysis[i].file, "del")
            IN  /\ preview.fileAnalysis[i].changeType =
                      IF linesAdded > 2 * linesRemoved THEN "Addition"
                      ELSE IF linesRemoved > 2 * linesAdded THEN "Deletion"
                      ELSE "Modification"
                /\ preview.fileAnalysis[i].complexity =
                      IF linesAdded + linesRemoved > 50 THEN "High"
                      ELSE IF linesAdded + linesRemoved > 20 THEN "Medium"
                      ELSE "Low"

LowLabels ==
    { "Low - Minor code adjustments", "Low - Configuration updates",
      "Low - Documentation updates", "Low - Styling modifications" }

\* C21: the business impact of a markdown, YAML or stylesheet file is a Low
\* label whatever its number of changed lines, and the business impact of a
\* file with an unrecognized extension is "Unknown - Requires manual
\* assessment".
C21_NonLogicFilesAreLow ==
    parsePc = "done" =>
        \A i \in 1..Len(preview.fileAnalysis) :
            LET ext == PathTable[preview.fileAnalysis[i].file.stem].extLower IN
            /\ ext \in {"md", "yml", "yaml", "css", "scss"} =>
                  preview.fileAnalysis[i].businessImpact \in LowLabels
            /\ ext \notin {"ts", "js", "json", "md", "yml", "yaml", "css", "scss"} =>
                  preview.fileAnalysis[i].businessImpact =
                      "Unknown - Requires manual assessment"

\* the labels determineBusinessImpact can return
ImpactLabels ==
    LowLabels \cup
    { "High - Core business logic modifications", "Medium - API interface changes",
      "Medium - Data structure modifications", "Medium - Significant code changes",
      "Medium - Dependency changes affecting project",
      "Medium - Infrastructure or CI/CD changes",
      "Unknown - Requires manual assessment", "Unknown - Analysis error" }

\* C22: after parsing, fileAnalysis holds one entry for each file of the
\* diff, in the order of the files, each with a changeType among Addition,
\* Deletion, Modification, a complexity among Low, Medium, High and a
\* business-impact label; no file is left out.
C22_ClassifierTotal ==
    parsePc = "done" =>
        /\ [i \in 1..Len(preview.fileAnalysis) |-> preview.fileAnalysis[i].file]
               = FirstOccurrenceOrder(diff)
        /\ Len(preview.fileAnalysis) = preview.technicalMetrics.totalFiles
        /\ \A i \in 1..Len(preview.fileAnalysis) :
              /\ preview.fileAnalysis[i].changeType
                    \in {"Addition", "Deletion", "Modification"}
              /\ preview.fileAnalysis[i].complexity \in {"Low", "Medium", "High"}
              /\ preview.fileAnalysis[i].businessImpact \in ImpactLabels

\* more files than the changed-files list shows, some of them without any
\* recorded line, all classified
C22_Witness ==
    /\ parsePc = "done"
    /\ Len(preview.fileAnalysis) > MaxFilesListed
    /\ \E i \in 1..Len(preview.fileAnalysis) :
          preview.fileAnalysis[i].linesAdded + preview.fileAnalysis[i].linesRemoved = 0

\* C23: for an empty, a whitespace-only or a non-string diff
\* processDiffForPreview returns a result with zero files, every counter
\* zero, an empty fileAnalysis and the changes summary "No changes detected".
C23_BlankDiffGivesEmptyResult ==
    (ParseFinished /\ IsBlankDiff(AsString(diff))) =>
        /\ preview.changesSummary = "No changes detected"
        /\ preview.files = <<>>
        /\ preview.fileAnalysis = <<>>
        /\ preview.technicalMetrics.totalFiles = 0
        /\ preview.technicalMetrics.linesAdded = 0
        /\ preview.technicalMetrics.linesRemoved = 0
        /\ preview.technicalMetrics.functionsModified = 0
        /\ preview.technicalMetrics.classesModified = 0
        /\ preview.technicalMetrics.interfacesModified = 0

\* the call has returned for an argument that is not a string
C23_Witness ==
    /\ parsePc = "done"
    /\ diff = NotAString
    /\ preview.changesSummary = "No changes detected"

\* the property is missing or blank
MissingOrBlank(v) == v.type = "undefined" \/ (v.type = "string" /\ v.blank)

\* C24: validatePRParams raises InvalidParams exactly when, in this order,
\* the title is missing or blank, the description is missing or blank, the
\* rootUri is missing or blank, the title is longer than 100 characters or
\* the description is longer than 50,000; the first failing test gives the
\* message; for every other argument it returns and throws nothing.
C24_ValidationOrder ==
    validatePc = "done" =>
        thrown =
            IF MissingOrBlank(params.title)
            THEN InvalidParams("PR title cannot be empty")
            ELSE IF MissingOrBlank(params.description)
            THEN InvalidParams("PR description cannot be empty")
            ELSE IF MissingOrBlank(params.rootUri)
            THEN InvalidParams("Root URI is required")
            ELSE IF params.title.len > 100
            THEN InvalidParams("PR title is too long")
            ELSE IF params.description.len > 50000
            THEN InvalidParams("PR description is extremely long")
            ELSE NothingThrown

C26_ResponseWithinClientLimit ==
    hResponse.kind = "ok" => hResponse.text.len <= 5000

\* C27: when the staged and the unstaged diff are blank on the base branch,
\* or the diff between the branches is blank, the error that reaches the
\* caller carries the guidance raised where the blank diff was detected.
C27_GuidanceReachesCaller ==
    (hResponse.kind = "error"
        /\ hResponse.raised \in {"No changes found to generate PR for",
                                 "No differences found between branches"}) =>
        hResponse.message = hResponse.raised

\* the command was run and succeeded
Succeeded(cmd) ==
    \E i \in 1..Len(gitCommands) : gitCommands[i].cmd = cmd /\ gitCommands[i].ok

\* what the command printed
OutputOf(cmd) ==
    gitCommands[CHOOSE i \in 1..Len(gitCommands) : gitCommands[i].cmd = cmd].out

\* C28: the base branch is main if the local branch main exists, else master
\* if it exists, else the current branch; on the base branch the diff that is
\* analysed is the staged diff when it is not blank and the unstaged diff
\* otherwise, and on another branch it is the diff base..current; git diff
\* without --staged runs only after the staged diff was found blank.
C28_BaseBranchAndDiffSource ==
    /\ hPc \in {"diff", "size", "analyse", "write", "respond"} =>
          mainBranch = IF Succeeded("show-ref main") THEN "main"
                       ELSE IF Succeeded("show-ref master") THEN "master"
                       ELSE featureBranch
    /\ hPc \in {"size", "analyse", "write", "respond"} =>
          hDiff = IF featureBranch # mainBranch THEN OutputOf("diff base..current")
                  ELSE IF ~OutputOf("diff --staged").blank THEN OutputOf("diff --staged")
                  ELSE OutputOf("diff")
    /\ \A i \in 1..Len(gitCommands) :
          gitCommands[i].cmd = "diff" =>
              /\ i > 1
              /\ gitCommands[i - 1].cmd = "diff --staged"
              /\ gitCommands[i - 1].ok
              /\ gitCommands[i - 1].out.blank

\* on master, with no branch main, the staged diff was blank and the
\* unstaged diff is analysed
C28_Witness ==
    /\ hPc = "analyse"
    /\ featureBranch = "master"
    /\ mainBranch = "master"
    /\ Succeeded("diff")
    /\ hDiff = OutputOf("diff")

\* C29: after a diff is parsed, technicalMetrics.linesAdded is the sum of
\* fileAnalysis[i].linesAdded over all files and technicalMetrics.linesRemoved
\* is the sum of fileAnalysis[i].linesRemoved.
C29_AggregateIsSumOfFiles ==
    parsePc = "done" =>
        /\ preview.technicalMetrics.linesAdded =
               SumSeq([i \in 1..Len(preview.fileAnalysis) |->
                          preview.fileAnalysis[i].linesAdded])
        /\ preview.technicalMetrics.linesRemoved =
               SumSeq([i \in 1..Len(preview.fileAnalysis) |->
                          preview.fileAnalysis[i].linesRemoved])

\* a parsed diff of several files with added and removed lines
C29_Witness ==
    /\ parsePc = "done"
    /\ Len(preview.fileAnalysis) >= 2
    /\ preview.technicalMetrics.linesAdded > 0
    /\ preview.technicalMetrics.linesRemoved > 0

\* C30: the additions and deletions of the rule-based analysis
\* (generateFallbackAnalysis) equal the added and removed lines of
\* generateTechnicalMetrics over the same diff; the "+++ " and "--- " lines
\* are counted by neither.
C30_FallbackCountsEqualTechnicalMetrics ==
    (anPc = "done" /\ anCall = "requestCursorAIAnalysis" /\ sampling # "resolves") =>
        /\ anResult.addedLines = generateTechnicalMetrics(anDiff).addedLines
        /\ anResult.removedLines = generateTechnicalMetrics(anDiff).removedLines

====
